---- MODULE Spec2Model ----
(***************************************************************************)
(* Coverage-map normalisation and diffing of the policy-pulse front end.   *)
(*                                                                         *)
(* JavaScript values are modelled as tagged records:                       *)
(*   undefined, null, boolean, number (an integer), NaN, string (a         *)
(*   sequence of one-character strings), object (an ORDERED sequence of    *)
(*   properties, as Object.keys / JSON.stringify observe insertion order)  *)
(*   and array.  A thrown TypeError / SyntaxError is the value Throw.      *)
(* Numbers are integers: the bounded inputs carry no decimal fractions.    *)
(***************************************************************************)
EXTENDS Integers, Sequences, FiniteSets, TLC

VARIABLES
    raw,        \* the raw coverage_map handed to a normalizer
    med,        \* the medication name of the last getPolicyMedCoverage call
    out,        \* the value the last normalizer call returned
    op,         \* which function ran last ("init" before any call)
    base,       \* diffCoverageMaps: first argument
    target,     \* diffCoverageMaps: second argument
    rows,       \* diffCoverageMaps: returned DiffRow[]
    dop,        \* "init" before diffCoverageMaps ran, "diff" after, "threw" on an error
    rawVal,     \* one raw entry value of a coverage_map
    entry,      \* the CoverageEntry taken for rawVal (undefined: none)
    rank,       \* the rank last computed for entry (-1 before any)
    eop,        \* which entry-level function ran last
    pids,       \* bestPolicyForIllness: patientPolicyIds
    meds,       \* bestPolicyForIllness: the medications of the illness
    policyById, \* bestPolicyForIllness: the loaded policies, by id
    best,       \* bestPolicyForIllness: the returned record
    bop,        \* which copy of bestPolicyForIllness ran last
    dedupe,     \* treatments page: TRUE for the copy with fetchedPolicyIdsRef
    neededIds,  \* the policy ids the loaded patients refer to (the `patients` state)
    loadedIds,  \* the keys of the policyById state
    fetchedRef, \* fetchedPolicyIdsRef.current
    effectDue,  \* a dependency of the policy effect changed and it has not run yet
    inflight,   \* the batches of policy requests that have not settled
    servable,   \* the policy ids the server answers with a policy
    reqCount,   \* how many requests were issued for each policy id
    answeredIds,\* the ids a batch that was not cancelled has settled for
    updates,    \* how many times the patient list was set
    billUser,   \* billing page: userId
    billDue,    \* the recommendations effect is due (userId changed, or mount)
    billReqs,   \* the recommendations requests whose continuation has not run
    billLoading,\* the loading state
    billIssued, \* how many recommendations requests were issued
    authUser,   \* AuthProvider: user ("null" or a user id)
    authToken,  \* token ("null" or a token)
    storedUser, \* localStorage pp.auth.user ("null" when absent)
    storedToken,\* localStorage pp.auth.token ("null" when absent)
    isLoading,  \* isLoading
    logins,     \* the login() calls awaiting their response
    loginCount, \* how many login() calls were made
    loggedOut,  \* logout() was called and no login() started later has succeeded
    fetched,    \* policies page: the data of GET /policies
    policies,   \* the policies state
    polError,   \* the error state
    compared,   \* the argument of the last handleCompareWithPrevious (null: none)
    allForCompany, \* what fetchCompanyPoliciesWithFallback returned to it (undefined: not called)
    comparePair,\* the comparePair state
    compareError,\* the compareError state
    pop,        \* the policies page's last step
    ldMounted,  \* a page with a `cancelled`-guarded loading effect is mounted
    ldRuns,     \* the runs of the effect whose continuation has not finished
    ldData,     \* the loaded data state (0: the initial value, n: set by run n)
    ldError,    \* the error state (0: null, n: set by run n)
    ldLoading,  \* the loading state
    ldCount,    \* how many times the effect ran
    ldStale,    \* the runs whose continuation finished after their cleanup
    summary     \* the coverageSummary last computed (undefined: none)

normVars == <<raw, med, out, op>>
diffVars == <<base, target, rows, dop>>
entryVars == <<rawVal, entry, rank, eop>>
bestVars == <<pids, meds, policyById, best, bop>>
pageVars == <<dedupe, neededIds, loadedIds, fetchedRef, effectDue, inflight, servable,
              reqCount, answeredIds, updates>>
dataVars == <<normVars, diffVars, entryVars, bestVars>>
billVars == <<billUser, billDue, billReqs, billLoading, billIssued>>
authVars == <<authUser, authToken, storedUser, storedToken, isLoading, logins, loginCount, loggedOut>>
polVars == <<fetched, policies, polError, compared, allForCompany, comparePair, compareError, pop>>
ldVars == <<ldMounted, ldRuns, ldData, ldError, ldLoading, ldCount, ldStale>>
sumVars == <<summary>>
uiVars == <<pageVars, billVars, authVars, polVars, ldVars, sumVars>>
pageOthers == <<dataVars, billVars, authVars, polVars, ldVars, sumVars>>
billOthers == <<dataVars, pageVars, authVars, polVars, ldVars, sumVars>>
authOthers == <<dataVars, pageVars, billVars, polVars, ldVars, sumVars>>
polOthers == <<dataVars, pageVars, billVars, authVars, ldVars, sumVars>>
ldOthers == <<dataVars, pageVars, billVars, authVars, polVars, sumVars>>
sumOthers == <<normVars, diffVars, entryVars, pageVars, billVars, authVars, polVars, ldVars>>
vars == <<dataVars, uiVars>>

----------------------------------------------------------------------------
(* Bounds *)

\* longest raw array / largest raw object handed to a normalizer
MaxItems == 2
\* longest list of policy ids of a patient
MaxPolicies == 2
\* largest coverage map in which a medication is looked up
MaxLookupKeys == 2
\* most requests followed for one policy id
MaxRequests == 2
\* most replacements of the patient list
MaxUpdates == 3
\* most recommendations requests followed
MaxBillRequests == 3
\* most login() calls followed
MaxLogins == 3
\* longest list of policies the server returns
MaxFetched == 3
\* most runs of a loading effect followed
MaxRuns == 3
\* largest number of keys in a map handed to the differ
MaxKeys == 2

----------------------------------------------------------------------------
(* JavaScript values *)

Undefined == [k |-> "undefined"]
Null      == [k |-> "null"]
NaN       == [k |-> "nan"]
Throw     == [k |-> "throw"]
Bool(b)   == [k |-> "boolean", b |-> b]
Num(n)    == [k |-> "number", n |-> n]
Str(s)    == [k |-> "string", s |-> s]
Obj(p)    == [k |-> "object", props |-> p]
Arr(a)    == [k |-> "array", items |-> a]
Prop(key, val) == [key |-> key, val |-> val]
EmptyObj  == Obj(<<>>)

\* string literals of the source, as character sequences
sType       == <<"t","y","p","e">>
sPercent    == <<"p","e","r","c","e","n","t">>
sCopay      == <<"c","o","p","a","y">>
sCovered    == <<"c","o","v","e","r","e","d">>
sNotCovered == <<"n","o","t","_","c","o","v","e","r","e","d">>
sNotCoveredSp == <<"n","o","t"," ","c","o","v","e","r","e","d">>
sFull       == <<"f","u","l","l">>
sNone       == <<"n","o","n","e">>
sBogus      == <<"b","o","g","u","s">>

Digits == <<"0","1","2","3","4","5","6","7","8","9">>
Lower  == <<"a","b","c","d","e","f","g","h","i","j","k","l","m",
            "n","o","p","q","r","s","t","u","v","w","x","y","z">>
Upper  == <<"A","B","C","D","E","F","G","H","I","J","K","L","M",
            "N","O","P","Q","R","S","T","U","V","W","X","Y","Z">>

Range(s) == {s[i] : i \in 1..Len(s)}
IndexOf(c, s) == CHOOSE i \in 1..Len(s) : s[i] = c
DigitSet == Range(Digits)
LowerSet == Range(Lower)
UpperSet == Range(Upper)
IsDigit(c) == c \in DigitSet
DigitVal(c) == IndexOf(c, Digits) - 1

\* typeof v
TypeOf(v) ==
    CASE v.k = "undefined" -> "undefined"
      [] v.k = "boolean"   -> "boolean"
      [] v.k \in {"number", "nan"} -> "number"
      [] v.k = "string"    -> "string"
      [] OTHER             -> "object"      \* null, object, array

\* ToBoolean(v): what `if (v)`, `!v`, `a && b`, `a || b` test
Truthy(v) ==
    CASE v.k \in {"undefined", "null", "nan"} -> FALSE
      [] v.k = "boolean" -> v.b
      [] v.k = "number"  -> v.n # 0
      [] v.k = "string"  -> Len(v.s) > 0
      [] OTHER           -> TRUE

\* a || b
OrElse(a, b) == IF Truthy(a) THEN a ELSE b

IsArray(v) == v.k = "array"

\* decimal digits of a natural number
RECURSIVE NatToStr(_)
NatToStr(n) == IF n < 10 THEN <<Digits[n + 1]>>
               ELSE NatToStr(n \div 10) \o <<Digits[(n % 10) + 1]>>
IntToStr(n) == IF n < 0 THEN <<"-">> \o NatToStr(0 - n) ELSE NatToStr(n)

\* Object.keys(v) of a value that is not null/undefined (those throw)
ObjectKeys(v) ==
    CASE v.k = "object" -> [i \in 1..Len(v.props) |-> v.props[i].key]
      [] v.k = "array"  -> [i \in 1..Len(v.items) |-> NatToStr(i - 1)]
      [] v.k = "string" -> [i \in 1..Len(v.s) |-> NatToStr(i - 1)]
      [] OTHER          -> <<>>

\* `key in v` / hasOwnProperty for the own enumerable keys of an object
HasKey(v, key) ==
    IF v.k = "object" THEN \E i \in 1..Len(v.props) : v.props[i].key = key
    ELSE \E i \in 1..Len(ObjectKeys(v)) : ObjectKeys(v)[i] = key

\* v[key] of a value that is not null/undefined
Get(v, key) ==
    IF ~HasKey(v, key) THEN Undefined
    ELSE IF v.k = "object"
         THEN v.props[CHOOSE j \in 1..Len(v.props) : v.props[j].key = key].val
    ELSE LET i == CHOOSE j \in 1..Len(ObjectKeys(v)) : ObjectKeys(v)[j] = key
         IN CASE v.k = "object" -> v.props[i].val
              [] v.k = "array"  -> v.items[i]
              [] OTHER          -> Str(<<v.s[i]>>)

\* o[key] = val on a plain object: an existing key keeps its position
Set(o, key, val) ==
    IF HasKey(o, key)
    THEN Obj([i \in 1..Len(o.props) |->
                IF o.props[i].key = key THEN Prop(key, val) ELSE o.props[i]])
    ELSE Obj(Append(o.props, Prop(key, val)))

\* String.prototype.trim over the model's alphabet (the space is its only blank)
RECURSIVE TrimLeft(_)
TrimLeft(s) == IF Len(s) > 0 /\ s[1] = " " THEN TrimLeft(Tail(s)) ELSE s
RECURSIVE TrimRight(_)
TrimRight(s) == IF Len(s) > 0 /\ s[Len(s)] = " "
                THEN TrimRight(SubSeq(s, 1, Len(s) - 1)) ELSE s
Trim(s) == TrimRight(TrimLeft(s))

\* String.prototype.toLowerCase
ToLowerCase(s) ==
    [i \in 1..Len(s) |->
        IF s[i] \in UpperSet THEN Lower[IndexOf(s[i], Upper)] ELSE s[i]]

RECURSIVE DigitsToNat(_)
DigitsToNat(s) == IF Len(s) = 0 THEN 0
                  ELSE 10 * DigitsToNat(SubSeq(s, 1, Len(s) - 1)) + DigitVal(s[Len(s)])
AllDigits(s) == Len(s) > 0 /\ \A i \in 1..Len(s) : IsDigit(s[i])

\* StringToNumber: blank -> 0, [+-]digits -> the integer, anything else -> NaN
StringToNumber(s) ==
    LET t == Trim(s) IN
    IF Len(t) = 0 THEN Num(0)
    ELSE IF AllDigits(t) THEN Num(DigitsToNat(t))
    ELSE IF t[1] = "-" /\ AllDigits(Tail(t)) THEN Num(0 - DigitsToNat(Tail(t)))
    ELSE IF t[1] = "+" /\ AllDigits(Tail(t)) THEN Num(DigitsToNat(Tail(t)))
    ELSE NaN

\* Number(v)
ToNumber(v) ==
    CASE v.k = "undefined" -> NaN
      [] v.k = "null"      -> Num(0)
      [] v.k = "boolean"   -> IF v.b THEN Num(1) ELSE Num(0)
      [] v.k \in {"number", "nan"} -> v
      [] v.k = "string"    -> StringToNumber(v.s)
      [] v.k = "array"     ->
            IF Len(v.items) = 0 THEN Num(0)
            ELSE IF Len(v.items) = 1 /\ v.items[1].k \in {"number", "nan"} THEN v.items[1]
            ELSE IF Len(v.items) = 1 /\ v.items[1].k = "string" THEN StringToNumber(v.items[1].s)
            ELSE IF Len(v.items) = 1 /\ v.items[1].k \in {"null", "undefined"} THEN Num(0)
            ELSE NaN
      [] OTHER             -> NaN      \* a plain object is "[object Object]"

\* a <= b on numbers (every comparison with NaN is false)
NumLE(a, b) == a.k = "number" /\ b.k = "number" /\ a.n <= b.n
NumGE(a, b) == a.k = "number" /\ b.k = "number" /\ a.n >= b.n
NumGT(a, b) == a.k = "number" /\ b.k = "number" /\ a.n > b.n

MathMin(a, b) == IF a.k = "nan" \/ b.k = "nan" THEN NaN ELSE IF a.n <= b.n THEN a ELSE b
MathMax(a, b) == IF a.k = "nan" \/ b.k = "nan" THEN NaN ELSE IF a.n >= b.n THEN a ELSE b

IsStr(v, s) == v.k = "string" /\ v.s = s

----------------------------------------------------------------------------
(* CoverageEntry literals, built in the property order the source writes *)

NotCoveredEntry == Obj(<<Prop(sType, Str(sNotCovered))>>)
CoveredEntry(copay) == Obj(<<Prop(sType, Str(sCovered)), Prop(sCopay, copay)>>)
PercentEntry(p) == Obj(<<Prop(sType, Str(sPercent)), Prop(sPercent, p)>>)
PercentCopayEntry(p, copay) ==
    Obj(<<Prop(sType, Str(sPercent)), Prop(sPercent, p), Prop(sCopay, copay)>>)

----------------------------------------------------------------------------
(* PatientPoliciesPage.tsx: normalizeCoverageMap *)

\* a clamp that has lost its upper bound
clamp_NoUpper(val) == MathMax(Num(0), val)

\* Math.max(0, Math.min(100, val))
clamp(val) == MathMax(Num(0), MathMin(Num(100), val))

\* the `typeof val === "number"` branch (lines 89-91 and 101-103)
numberEntry(val) ==
    IF NumLE(val, Num(0)) THEN NotCoveredEntry ELSE PercentEntry(clamp(val))

\* Object.keys(v) throws TypeError on null and undefined
KeysThrows(v) == v.k \in {"null", "undefined"}
\* `key in v` throws TypeError unless v is an object
InThrows(v) == TypeOf(v) # "object" \/ v.k = "null"

\* mutant: the `!item` test is forgotten (typeof null is "object")
itemIsObject_NoNullTest(item) == TypeOf(item) = "object"

\* line 85: `if (!item || typeof item !== "object") continue` (TRUE = go on)
itemIsObject(item) == Truthy(item) /\ TypeOf(item) = "object"

\* line 92: `val && typeof val === "object"`, the guard of `"type" in val`
valIsObject(val) == Truthy(val) /\ TypeOf(val) = "object"

\* lines 92-93: an array item's typed-object value is stored as it came
arrayTypedEntry(val) == val

\* one iteration of the array loop (lines 84-95); Throw when Object.keys
\* or `in` is applied to a value they reject
arrayItem(acc, item) ==
    IF ~itemIsObject(item) THEN acc
    ELSE IF KeysThrows(item) THEN Throw
    ELSE LET keys == ObjectKeys(item)
             key  == IF Len(keys) > 0 THEN Str(keys[1]) ELSE Undefined
             val  == IF Truthy(key) THEN Get(item, key.s) ELSE Undefined
         IN IF ~Truthy(key) THEN acc
            ELSE IF TypeOf(val) = "number" THEN Set(acc, key.s, numberEntry(val))
            ELSE IF valIsObject(val)
                 THEN IF InThrows(val) THEN Throw
                      ELSE IF HasKey(val, sType) THEN Set(acc, key.s, arrayTypedEntry(val))
                      ELSE acc
            ELSE acc

RECURSIVE arrayLoop(_, _, _)
arrayLoop(acc, items, i) ==
    IF acc = Throw \/ i > Len(items) THEN acc
    ELSE arrayLoop(arrayItem(acc, items[i]), items, i + 1)

\* lines 106-109: the typed-object branch of the object form
\* (NoEntry = the key is not written)
NoEntry == [k |-> "noentry"]
objectTypedEntry(v) ==
    LET type == Get(v, sType) IN
    IF TypeOf(type) # "string" THEN NoEntry
    ELSE IF IsStr(type, sCovered) THEN CoveredEntry(Get(v, sCopay))
    ELSE IF IsStr(type, sNotCovered) THEN NotCoveredEntry
    ELSE IF IsStr(type, sPercent)
         THEN PercentCopayEntry(OrElse(ToNumber(Get(v, sPercent)), Num(0)), Get(v, sCopay))
    ELSE NoEntry

\* one iteration of the Object.entries loop (lines 100-111)
objectItem(acc, key, val) ==
    IF TypeOf(val) = "number" THEN Set(acc, key, numberEntry(val))
    ELSE IF valIsObject(val)
         THEN IF KeysThrows(val) THEN Throw      \* `v.type` of null
              ELSE IF objectTypedEntry(val) = NoEntry THEN acc
              ELSE Set(acc, key, objectTypedEntry(val))
    ELSE acc

RECURSIVE objectLoop(_, _, _)
objectLoop(acc, o, i) ==
    IF acc = Throw \/ i > Len(ObjectKeys(o)) THEN acc
    ELSE objectLoop(objectItem(acc, ObjectKeys(o)[i], Get(o, ObjectKeys(o)[i])), o, i + 1)

normalizeCoverageMap(r) ==
    IF ~Truthy(r) THEN EmptyObj
    ELSE IF IsArray(r) THEN arrayLoop(EmptyObj, r.items, 1)
    ELSE IF Truthy(r) /\ TypeOf(r) = "object" THEN objectLoop(EmptyObj, r, 1)
    ELSE EmptyObj

----------------------------------------------------------------------------
(* part_008 (hospital treatments page): loose normalisation, entry
   interpretation and the case-insensitive lookup *)

\* String(v) as far as a comparison with a type tag can tell
ToStringJS(v) ==
    CASE v.k = "string"    -> v.s
      [] v.k = "number"    -> IntToStr(v.n)
      [] v.k = "nan"       -> <<"N","a","N">>
      [] v.k = "null"      -> <<"n","u","l","l">>
      [] v.k = "undefined" -> <<"u","n","d","e","f","i","n","e","d">>
      [] v.k = "boolean"   -> IF v.b THEN <<"t","r","u","e">> ELSE <<"f","a","l","s","e">>
      [] v.k = "array"     -> IF Len(v.items) = 1 /\ v.items[1].k = "string"
                              THEN v.items[1].s ELSE <<>>
      [] OTHER             -> <<"[","o","b","j","e","c","t"," ","O","b","j","e","c","t","]">>

\* the prefix of s made of characters satisfying the class (digits, blanks)
RECURSIVE DigitPrefixLen(_)
DigitPrefixLen(s) == IF Len(s) > 0 /\ IsDigit(s[1]) THEN 1 + DigitPrefixLen(Tail(s)) ELSE 0
RECURSIVE BlankPrefixLen(_)
BlankPrefixLen(s) == IF Len(s) > 0 /\ s[1] = " " THEN 1 + BlankPrefixLen(Tail(s)) ELSE 0

\* s.trim().match(/^(\d+(?:\.\d+)?)\s*%?$/) then clamp(Number(m[1])), or null.
\* The inputs carry no "." so the optional fraction group never matches.
parsePercentString(s) ==
    LET t    == Trim(s)
        nd   == DigitPrefixLen(t)
        rest == SubSeq(t, nd + 1, Len(t))
        nb   == BlankPrefixLen(rest)
        tl   == SubSeq(rest, nb + 1, Len(rest))
    IN IF nd > 0 /\ (tl = <<>> \/ tl = <<"%">>)
       THEN MathMax(Num(0), MathMin(Num(100), Num(DigitsToNat(SubSeq(t, 1, nd)))))
       ELSE Null

\* one iteration of the array loop of normalizeCoverageMapLoose (lines 73-78)
looseItem(acc, item) ==
    IF Truthy(item) /\ TypeOf(item) = "object"
    THEN IF KeysThrows(item) THEN Throw ELSE
         LET keys == ObjectKeys(item)
             key  == IF Len(keys) > 0 THEN Str(keys[1]) ELSE Undefined
         IN IF Truthy(key) THEN Set(acc, key.s, Get(item, key.s)) ELSE acc
    ELSE acc

RECURSIVE looseLoop(_, _, _)
looseLoop(acc, items, i) ==
    IF acc = Throw \/ i > Len(items) THEN acc ELSE looseLoop(looseItem(acc, items[i]), items, i + 1)

normalizeCoverageMapLoose(r) ==
    IF ~Truthy(r) THEN EmptyObj
    ELSE IF IsArray(r) THEN looseLoop(EmptyObj, r.items, 1)
    ELSE IF TypeOf(r) = "object" THEN r
    ELSE EmptyObj

\* the percent of a typed entry (lines 95-97): Number(percent) || 0, clamped
typedPercent(val) ==
    MathMax(Num(0), MathMin(Num(100), OrElse(ToNumber(Get(val, sPercent)), Num(0))))

\* the string form without toLowerCase
stringEntry_CaseSensitive(val) ==
    LET s   == Trim(val.s)
        pct == parsePercentString(s)
    IN IF s = sCovered \/ s = sFull THEN Obj(<<Prop(sType, Str(sCovered))>>)
       ELSE IF s = sNotCoveredSp \/ s = sNotCovered \/ s = sNone THEN NotCoveredEntry
       ELSE IF pct.k # "null"
            THEN IF NumLE(pct, Num(0)) THEN NotCoveredEntry ELSE PercentEntry(pct)
       ELSE Undefined

\* the string form (lines 110-120)
stringEntry(val) ==
    LET s   == ToLowerCase(Trim(val.s))
        pct == parsePercentString(s)
    IN IF s = sCovered \/ s = sFull THEN Obj(<<Prop(sType, Str(sCovered))>>)
       ELSE IF s = sNotCoveredSp \/ s = sNotCovered \/ s = sNone THEN NotCoveredEntry
       ELSE IF pct.k # "null"
            THEN IF NumLE(pct, Num(0)) THEN NotCoveredEntry ELSE PercentEntry(pct)
       ELSE Undefined

\* the number form (lines 102-107)
numberForm(val) ==
    LET n == MathMax(Num(0), MathMin(Num(100), val)) IN
    IF NumLE(n, Num(0)) THEN NotCoveredEntry
    ELSE IF NumGE(n, Num(100)) THEN PercentEntry(Num(100))
    ELSE PercentEntry(n)

\* what follows the typed-object branch when it did not return
untypedForm(val) ==
    IF TypeOf(val) = "number" THEN numberForm(val)
    ELSE IF TypeOf(val) = "string" THEN stringEntry(val)
    ELSE Undefined

interpretCoverage(val) ==
    IF val.k \in {"null", "undefined"} THEN Undefined
    ELSE IF TypeOf(val) = "object" /\ HasKey(val, sType)
         THEN LET t == ToStringJS(Get(val, sType)) IN
              IF t = sCovered THEN CoveredEntry(Get(val, sCopay))
              ELSE IF t = sNotCovered THEN NotCoveredEntry
              ELSE IF t = sPercent
                   THEN PercentCopayEntry(typedPercent(val), Get(val, sCopay))
              ELSE untypedForm(val)
    ELSE untypedForm(val)

\* findKeyCaseInsensitive without its hasOwnProperty test (line 156)
findKeyCaseInsensitive_NoExactTest(obj, wanted) ==
    IF Len(wanted) = 0 THEN Null
    ELSE LET keys == ObjectKeys(obj)
             hits == {i \in 1..Len(keys) : ToLowerCase(keys[i]) = ToLowerCase(wanted)}
         IN IF hits = {} THEN Null
            ELSE Str(keys[CHOOSE i \in hits : \A j \in hits : i <= j])

\* findKeyCaseInsensitive(obj, wanted): the matched key, or null
findKeyCaseInsensitive(obj, wanted) ==
    IF Len(wanted) = 0 THEN Null
    ELSE IF HasKey(obj, wanted) THEN Str(wanted)
    ELSE LET keys == ObjectKeys(obj)
             hits == {i \in 1..Len(keys) : ToLowerCase(keys[i]) = ToLowerCase(wanted)}
         IN IF hits = {} THEN Null
            ELSE Str(keys[CHOOSE i \in hits : \A j \in hits : i <= j])

\* getPolicyMedCoverage(pol, med) of a policy whose coverage_map is r
getPolicyMedCoverage(r, m) ==
    IF Len(m) = 0 THEN Undefined
    ELSE LET map == normalizeCoverageMapLoose(r)
             matchedKey == findKeyCaseInsensitive(map, m)
         IN IF matchedKey.k = "null" THEN Undefined
            ELSE interpretCoverage(Get(map, matchedKey.s))

----------------------------------------------------------------------------
(* part_008: ranking an interpreted entry *)

\* isFull whose percent test reads > 100: a full percentage is not full
isFull_Above100(e) ==
    IF ~Truthy(e) THEN FALSE
    ELSE IF IsStr(Get(e, sType), sCovered) THEN TRUE
    ELSE IsStr(Get(e, sType), sPercent) /\ NumGT(ToNumber(Get(e, sPercent)), Num(100))

\* isFull(entry), lines 125-130
isFull(e) ==
    IF ~Truthy(e) THEN FALSE
    ELSE IF IsStr(Get(e, sType), sCovered) THEN TRUE
    ELSE IF IsStr(Get(e, sType), sPercent) /\ NumGE(ToNumber(Get(e, sPercent)), Num(100))
         THEN TRUE
    ELSE FALSE

\* isNone without its percent <= 0 test
isNone_NoPercentTest(e) ==
    IF ~Truthy(e) THEN TRUE
    ELSE IsStr(Get(e, sType), sNotCovered)

\* isNone(entry), lines 131-136
isNone(e) ==
    IF ~Truthy(e) THEN TRUE
    ELSE IF IsStr(Get(e, sType), sNotCovered) THEN TRUE
    ELSE IF IsStr(Get(e, sType), sPercent) /\ NumLE(ToNumber(Get(e, sPercent)), Num(0))
         THEN TRUE
    ELSE FALSE

\* rankCoverage(entry), lines 174-178
rankCoverage(e) == IF isFull(e) THEN 3 ELSE IF isNone(e) THEN 0 ELSE 2

----------------------------------------------------------------------------
(* HospitalTreatmentsPage.tsx: its own copy of rankCoverage, applied to the
   entry read from policy.coverage_map without normalisation *)

treatmentsRankCoverage(e) ==
    IF ~Truthy(e) THEN 0
    ELSE IF IsStr(Get(e, sType), sCovered) THEN 3
    ELSE IF IsStr(Get(e, sType), sPercent)
         THEN IF NumGE(ToNumber(Get(e, sPercent)), Num(100)) THEN 3
              ELSE IF NumGT(ToNumber(Get(e, sPercent)), Num(0)) THEN 2
              ELSE 0
    ELSE 0

----------------------------------------------------------------------------
(* HospitalPage.tsx: normalizeCoverageMapLoose, which also accepts a JSON
   string *)

\* does s read {"<letters>":<digits>} ?
IsOneKeyObjectText(s) ==
    LET n == Len(s) IN
    /\ n >= 7
    /\ s[1] = "{" /\ s[2] = "\"" /\ s[n] = "}"
    /\ \E c \in 4..(n - 3) :
          /\ s[c] = "\"" /\ s[c + 1] = ":"
          /\ \A i \in 3..(c - 1) : s[i] \in LowerSet \cup UpperSet
          /\ AllDigits(SubSeq(s, c + 2, n - 1))

\* JSON.parse on the texts the bounded inputs hold: {}, [], null, an
\* integer, {"key":integer}; every other text of the inputs is malformed
\* JSON and throws SyntaxError
JSONparse(s) ==
    IF s = <<"{","}">> THEN EmptyObj
    ELSE IF s = <<"[","]">> THEN Arr(<<>>)
    ELSE IF s = <<"n","u","l","l">> THEN Null
    ELSE IF AllDigits(s) THEN Num(DigitsToNat(s))
    ELSE IF IsOneKeyObjectText(s)
         THEN LET c == CHOOSE i \in 4..(Len(s) - 3) : s[i] = "\"" /\ s[i + 1] = ":"
              IN Obj(<<Prop(SubSeq(s, 3, c - 1), Num(DigitsToNat(SubSeq(s, c + 2, Len(s) - 1))))>>)
    ELSE Throw

\* lines 75-83: the string branch; Fallthrough = control reaches line 84
Fallthrough == [k |-> "fallthrough"]
\* the try { JSON.parse } catch { return {} } of lines 76-82
tryParse(r) == IF JSONparse(r.s) = Throw THEN EmptyObj
               ELSE IF Truthy(JSONparse(r.s)) /\ TypeOf(JSONparse(r.s)) = "object"
                       /\ ~IsArray(JSONparse(r.s))
                    THEN JSONparse(r.s)
               ELSE Fallthrough

hospitalNormalizeCoverageMapLoose(r) ==
    IF ~Truthy(r) THEN EmptyObj
    ELSE IF TypeOf(r) = "string" /\ tryParse(r) # Fallthrough THEN tryParse(r)
    ELSE IF IsArray(r) THEN looseLoop(EmptyObj, r.items, 1)
    ELSE IF TypeOf(r) = "object" THEN r
    ELSE EmptyObj

----------------------------------------------------------------------------
(* part_010 / part_006: isEqualCoverage and diffCoverageMaps *)

RECURSIVE JoinComma(_)
JoinComma(parts) ==
    IF Len(parts) = 0 THEN <<>>
    ELSE IF Len(parts) = 1 THEN parts[1]
    ELSE parts[1] \o <<",">> \o JoinComma(Tail(parts))

\* the properties JSON.stringify writes: those whose value is not undefined
RECURSIVE Serializable(_)
Serializable(props) ==
    IF Len(props) = 0 THEN <<>>
    ELSE IF props[1].val.k = "undefined" THEN Serializable(Tail(props))
    ELSE <<props[1]>> \o Serializable(Tail(props))

\* the text JSON.stringify gives a value other than undefined
RECURSIVE JSONtext(_)
JSONtext(v) ==
    CASE v.k \in {"null", "nan"} -> <<"n","u","l","l">>
      [] v.k = "number"  -> IntToStr(v.n)
      [] v.k = "boolean" -> IF v.b THEN <<"t","r","u","e">> ELSE <<"f","a","l","s","e">>
      [] v.k = "string"  -> <<"\"">> \o v.s \o <<"\"">>
      [] v.k = "array"   ->
            <<"[">> \o JoinComma([i \in 1..Len(v.items) |->
                          IF v.items[i].k = "undefined" THEN <<"n","u","l","l">>
                          ELSE JSONtext(v.items[i])]) \o <<"]">>
      [] OTHER ->
            LET ps == Serializable(v.props) IN
            <<"{">> \o JoinComma([i \in 1..Len(ps) |->
                          <<"\"">> \o ps[i].key \o <<"\"", ":">> \o JSONtext(ps[i].val)])
                  \o <<"}">>

\* JSON.stringify(v): undefined for undefined, else the text
JSONstringify(v) == IF v.k = "undefined" THEN Undefined ELSE Str(JSONtext(v))

isEqualCoverage(a, b) == JSONstringify(a) = JSONstringify(b)

\* collation weight of a character at the primary level: digits before
\* letters, a letter and its capital alike (keys are alphanumeric)
PrimaryWeight(c) ==
    IF IsDigit(c) THEN IndexOf(c, Digits)
    ELSE IF c \in LowerSet THEN 10 + IndexOf(c, Lower)
    ELSE IF c \in UpperSet THEN 10 + IndexOf(c, Upper)
    ELSE 0

RECURSIVE PrimaryCompare(_, _)
PrimaryCompare(a, b) ==
    IF Len(a) = 0 /\ Len(b) = 0 THEN 0
    ELSE IF Len(a) = 0 THEN -1
    ELSE IF Len(b) = 0 THEN 1
    ELSE IF PrimaryWeight(a[1]) < PrimaryWeight(b[1]) THEN -1
    ELSE IF PrimaryWeight(a[1]) > PrimaryWeight(b[1]) THEN 1
    ELSE PrimaryCompare(Tail(a), Tail(b))

\* on equal primary weights the first case difference decides, lower case first
RECURSIVE CaseCompare(_, _)
CaseCompare(a, b) ==
    IF Len(a) = 0 \/ Len(b) = 0 THEN 0
    ELSE IF a[1] = b[1] THEN CaseCompare(Tail(a), Tail(b))
    ELSE IF a[1] \in LowerSet THEN -1 ELSE 1

\* a.localeCompare(b) in the default locale
localeCompare(a, b) ==
    IF PrimaryCompare(a, b) # 0 THEN PrimaryCompare(a, b) ELSE CaseCompare(a, b)

\* mutant: changed ranked before added
order_ChangedFirst(kind) == CASE kind = "changed" -> 0 [] kind = "added" -> 1 [] OTHER -> 2

\* const order = { added: 0, changed: 1, removed: 2 }
order(kind) == CASE kind = "added" -> 0 [] kind = "changed" -> 1 [] OTHER -> 2

\* mutant: the `|| a.key.localeCompare(b.key)` tie-break is left out
compareRows_KindOnly(a, b) == order(a.kind) - order(b.kind)

\* the comparator handed to rows.sort
compareRows(a, b) ==
    IF order(a.kind) - order(b.kind) # 0 THEN order(a.kind) - order(b.kind)
    ELSE localeCompare(a.key, b.key)

\* Array.prototype.sort (stable): insertion of each row after the last row
\* that does not compare greater
RECURSIVE InsertRow(_, _)
InsertRow(sorted, r) ==
    IF Len(sorted) = 0 THEN <<r>>
    ELSE IF compareRows(sorted[Len(sorted)], r) <= 0 THEN Append(sorted, r)
    ELSE Append(InsertRow(SubSeq(sorted, 1, Len(sorted) - 1), r), sorted[Len(sorted)])

RECURSIVE SortRows(_)
SortRows(rs) ==
    IF Len(rs) = 0 THEN <<>>
    ELSE InsertRow(SortRows(SubSeq(rs, 1, Len(rs) - 1)), rs[Len(rs)])

\* base || {}
\* base used where the source writes base || {}
OrEmpty_Missing(m) == m

\* base || {}
OrEmpty(m) == IF Truthy(m) THEN m ELSE EmptyObj

\* new Set([...Object.keys(base || {}), ...Object.keys(target || {})])
RECURSIVE Dedup(_)
Dedup(s) ==
    IF Len(s) = 0 THEN <<>>
    ELSE LET front == Dedup(SubSeq(s, 1, Len(s) - 1)) IN
         IF s[Len(s)] \in Range(front) THEN front ELSE Append(front, s[Len(s)])

unionKeys(b, t) == Dedup(ObjectKeys(OrEmpty(b)) \o ObjectKeys(OrEmpty(t)))

\* base?.[k]
OptGet(m, key) == IF m.k \in {"null", "undefined"} THEN Undefined ELSE Get(m, key)

DiffRow(kind, key, before, after) ==
    [kind |-> kind, key |-> key, before |-> before, after |-> after]

\* mutant: the `removed` branch is left out
rowsOfKey_NoRemoved(b, t, key) ==
    LET before == OptGet(b, key)
        after  == OptGet(t, key)
    IN IF ~Truthy(before) /\ Truthy(after)
         THEN <<DiffRow("added", key, Undefined, after)>>
       ELSE IF Truthy(before) /\ Truthy(after) /\ ~isEqualCoverage(before, after)
         THEN <<DiffRow("changed", key, before, after)>>
       ELSE <<>>

\* mutant: the `!` before isEqualCoverage is left out
rowsOfKey_EqualIsChanged(b, t, key) ==
    LET before == OptGet(b, key)
        after  == OptGet(t, key)
    IN IF Truthy(before) /\ ~Truthy(after)
         THEN <<DiffRow("removed", key, before, Undefined)>>
       ELSE IF ~Truthy(before) /\ Truthy(after)
         THEN <<DiffRow("added", key, Undefined, after)>>
       ELSE IF Truthy(before) /\ Truthy(after) /\ isEqualCoverage(before, after)
         THEN <<DiffRow("changed", key, before, after)>>
       ELSE <<>>

\* the rows one key pushes (lines 143-148): at most one
rowsOfKey(b, t, key) ==
    LET before == OptGet(b, key)
        after  == OptGet(t, key)
    IN IF Truthy(before) /\ ~Truthy(after)
         THEN <<DiffRow("removed", key, before, Undefined)>>
       ELSE IF ~Truthy(before) /\ Truthy(after)
         THEN <<DiffRow("added", key, Undefined, after)>>
       ELSE IF Truthy(before) /\ Truthy(after) /\ ~isEqualCoverage(before, after)
         THEN <<DiffRow("changed", key, before, after)>>
       ELSE <<>>

RECURSIVE pushRows(_, _, _)
pushRows(b, t, keys) ==
    IF Len(keys) = 0 THEN <<>>
    ELSE rowsOfKey(b, t, keys[1]) \o pushRows(b, t, Tail(keys))

\* Object.keys(base || {}) / Object.keys(target || {}) raises a TypeError
diffThrows(b, t) == KeysThrows(OrEmpty(b)) \/ KeysThrows(OrEmpty(t))

\* the rows array shared between calls instead of created by each
diffCoverageMaps_SharedRows(b, t) == SortRows(rows \o pushRows(b, t, unionKeys(b, t)))

diffCoverageMaps(b, t) == SortRows(pushRows(b, t, unionKeys(b, t)))

----------------------------------------------------------------------------
(* bestPolicyForIllness: part_008 and HospitalTreatmentsPage.tsx *)

sId          == <<"i","d">>
sName        == <<"n","a","m","e">>
sCoverageMap == <<"c","o","v","e","r","a","g","e","_","m","a","p">>
sPolicyId    == <<"p","o","l","i","c","y","I","d">>
sPolicyName  == <<"p","o","l","i","c","y","N","a","m","e">>
sScore       == <<"s","c","o","r","e">>
sDetails     == <<"d","e","t","a","i","l","s">>

\* { score: -1, details: {} }
InitialBest == Obj(<<Prop(sScore, Num(-1)), Prop(sDetails, EmptyObj)>>)

\* { policyId: pol.id, policyName: pol.name, score, details }
BestOf(pol, score, details) ==
    Obj(<<Prop(sPolicyId, Get(pol, sId)), Prop(sPolicyName, Get(pol, sName)),
          Prop(sScore, Num(score)), Prop(sDetails, details)>>)

\* part_008 line 192: the entry of medication m in policy pol
entryOf(pol, m) == getPolicyMedCoverage(Get(pol, sCoverageMap), m)

\* HospitalTreatmentsPage line 101: pol.coverage_map?.[m]
treatmentsEntryOf(pol, m) == OptGet(Get(pol, sCoverageMap), m)

\* the inner loop of part_008 (lines 191-195): <<score, details>> after meds[i..]
RECURSIVE medLoop(_, _, _, _)
medLoop(acc, pol, ms, i) ==
    IF i > Len(ms) THEN acc
    ELSE medLoop(<<acc[1] + rankCoverage(entryOf(pol, ms[i])),
                   Set(acc[2], ms[i], entryOf(pol, ms[i]))>>, pol, ms, i + 1)

\* the inner loop of HospitalTreatmentsPage (lines 100-104)
RECURSIVE treatmentsMedLoop(_, _, _, _)
treatmentsMedLoop(acc, pol, ms, i) ==
    IF i > Len(ms) THEN acc
    ELSE treatmentsMedLoop(<<acc[1] + treatmentsRankCoverage(treatmentsEntryOf(pol, ms[i])),
                             Set(acc[2], ms[i], treatmentsEntryOf(pol, ms[i]))>>, pol, ms, i + 1)

\* the replacement test reading score >= best.score: the last maximum wins
replaces_OrEqual(score, b) == score >= Get(b, sScore).n

\* if (score > best.score)
replaces(score, b) == score > Get(b, sScore).n

\* one iteration of the policy loop of part_008 (lines 186-199)
policyStep(b, pid, ms, byId) ==
    LET pol == Get(byId, pid) IN
    IF ~Truthy(pol) THEN b
    ELSE LET r == medLoop(<<0, EmptyObj>>, pol, ms, 1) IN
         IF replaces(r[1], b) THEN BestOf(pol, r[1], r[2]) ELSE b

\* one iteration of the policy loop of HospitalTreatmentsPage (lines 95-108)
treatmentsPolicyStep(b, pid, ms, byId) ==
    LET pol == Get(byId, pid) IN
    IF ~Truthy(pol) THEN b
    ELSE LET r == treatmentsMedLoop(<<0, EmptyObj>>, pol, ms, 1) IN
         IF replaces(r[1], b) THEN BestOf(pol, r[1], r[2]) ELSE b

RECURSIVE policyLoop(_, _, _, _, _)
policyLoop(b, ps, i, ms, byId) ==
    IF i > Len(ps) THEN b
    ELSE policyLoop(policyStep(b, ps[i], ms, byId), ps, i + 1, ms, byId)

RECURSIVE treatmentsPolicyLoop(_, _, _, _, _)
treatmentsPolicyLoop(b, ps, i, ms, byId) ==
    IF i > Len(ps) THEN b
    ELSE treatmentsPolicyLoop(treatmentsPolicyStep(b, ps[i], ms, byId), ps, i + 1, ms, byId)

\* part_008 bestPolicyForIllness(patientPolicyIds, meds, policyById)
bestPolicyForIllness(ps, ms, byId) == policyLoop(InitialBest, ps, 1, ms, byId)

\* HospitalTreatmentsPage bestPolicyForIllness(patientPolicyIds, meds, policyById)
treatmentsBestPolicyForIllness(ps, ms, byId) ==
    treatmentsPolicyLoop(InitialBest, ps, 1, ms, byId)

----------------------------------------------------------------------------
(* Bounded inputs *)

TypedObj(t) == Obj(<<Prop(sType, Str(t))>>)
TypedPercent(p) == Obj(<<Prop(sType, Str(sPercent)), Prop(sPercent, p)>>)

\* raw entry values: numbers, strings, typed objects and malformed values
EntryValues ==
    { Null, Arr(<<>>), EmptyObj,
      Num(-5), Num(0), Num(50), Num(150),
      Str(<<"1","5","0","%">>), Str(<<"a","b","c">>),
      TypedObj(sNotCovered), TypedObj(sBogus),
      Obj(<<Prop(sType, Str(sCovered)), Prop(sCopay, Num(10))>>),
      Obj(<<Prop(sType, Str(sPercent))>>),
      TypedPercent(Num(-5)), TypedPercent(Num(150)),
      TypedPercent(Str(<<"1","5","0">>)), TypedPercent(Str(<<"a","b","c">>)) }

\* the values a second item of the same map carries
SecondValues == { Num(50), TypedObj(sCovered), TypedObj(sBogus) }

\* the names looked up in a map whose items are named "a" and "b"
MedNames == { <<"a">>, <<"A">> }

NamedValues ==
    { Prop(<<"a">>, v) : v \in EntryValues } \cup { Prop(<<"b">>, v) : v \in SecondValues }

\* items of an array-form map: { itemName: value }, and malformed items
ArrayItems ==
    { Obj(<<p>>) : p \in NamedValues }
    \cup { Null, Num(5), EmptyObj,
           Obj(<<Prop(<<"b">>, Num(50)), Prop(<<"a">>, Num(0))>>) }

BoundedSeqs(S, n) == UNION { [1..m -> S] : m \in 0..n }

ArrayForms == { Arr(items) : items \in BoundedSeqs(ArrayItems, MaxItems) }

ObjectForms ==
    { Obj(ps) : ps \in { q \in BoundedSeqs(NamedValues, MaxItems) :
                         \A i, j \in 1..Len(q) : q[i].key = q[j].key => i = j } }

OtherForms ==
    { Null, Undefined, Num(0), Num(7), Bool(TRUE), Str(<<>>), Str(<<"a","b","c">>),
      Str(<<"5">>), Str(<<"[","]">>), Str(<<"{","}">>),
      Str(<<"{","\"","a","\"",":","5","0","}">>) }

RawInputs == ArrayForms \cup ObjectForms \cup OtherForms

\* the strings offered as a raw entry value
StringForms ==
    { Str(<<"c","o","v","e","r","e","d">>),
      Str(<<" ","F","u","l","l"," ">>),
      Str(<<"C","O","V","E","R","E","D">>),
      Str(<<"f","u","l","l">>),
      Str(<<"n","o","t"," ","c","o","v","e","r","e","d">>),
      Str(<<"n","o","t","_","c","o","v","e","r","e","d">>),
      Str(<<"N","o","n","e">>),
      Str(<<"N","O","T","_","C","O","V","E","R","E","D">>),
      Str(<<"5","0">>),
      Str(<<"5","0","%">>),
      Str(<<"5","0"," ","%">>),
      Str(<<" ","1","5","0","%"," ">>),
      Str(<<"1","0","0">>),
      Str(<<"0">>),
      Str(<<"0","%">>),
      Str(<<"-","5">>),
      Str(<<"a","b","c">>),
      Str(<<>>),
      Str(<<"5","x">>),
      Str(<<"%">>),
      Str(<<"c","o","v","e","r","e","d","!">>),
      Str(<<"n","o","t","c","o","v","e","r","e","d">>) }

\* the percentages offered, in range, at the ends and outside [0, 100]
Percents == {-5, 0, 1, 50, 99, 100, 150}

\* one raw entry value of every kind the back end may send
EntryForms ==
    {Undefined, Null, Bool(TRUE), EmptyObj, Arr(<<>>)}
      \cup {Num(n) : n \in Percents}
      \cup StringForms
      \cup {TypedPercent(Num(n)) : n \in Percents}
      \cup { TypedObj(sCovered), CoveredEntry(Num(10)), TypedObj(sNotCovered), TypedObj(sBogus),
             TypedObj(sPercent), TypedPercent(Str(<<"1","5","0">>)),
             TypedPercent(Str(<<"a","b","c">>)),
             PercentCopayEntry(Num(0), Num(10)), PercentCopayEntry(Num(50), Num(10)) }

\* the medications an illness may require
MedM == <<"m">>
MedN == <<"n">>
MedLists == { <<>>, <<MedM>>, <<MedM, MedN>> }

\* coverage maps of the loaded policies: scores 3, 4, 3 for MedLists' longest
\* list, and one map in the loose wire forms (a string under a differently
\* cased key, a raw number)
PolicyMaps ==
    { Obj(<<Prop(MedM, TypedObj(sCovered)), Prop(MedN, NotCoveredEntry)>>),
      Obj(<<Prop(MedM, TypedPercent(Num(50))), Prop(MedN, TypedPercent(Num(50)))>>),
      Obj(<<Prop(MedM, TypedPercent(Num(100)))>>),
      Obj(<<Prop(<<"M">>, Str(sFull)), Prop(MedN, Num(100))>>) }

PolicyIdSeq == << <<"p","1">>, <<"p","2">>, <<"p","3">> >>
PolicyIds == {PolicyIdSeq[i] : i \in 1..Len(PolicyIdSeq)}

\* the policy fetched for id pid, carrying coverage map cm
PolicyOf(pid, cm) ==
    Obj(<<Prop(sId, Str(pid)), Prop(sName, Str(<<"P">> \o Tail(pid))), Prop(sCoverageMap, cm)>>)

\* policyById for a choice f of loaded maps (NoEntry: not loaded)
RECURSIVE LoadedOf(_, _)
LoadedOf(f, ks) ==
    IF ks = <<>> THEN EmptyObj
    ELSE LET front == LoadedOf(f, SubSeq(ks, 1, Len(ks) - 1))
             pid == ks[Len(ks)]
         IN IF f[pid] = NoEntry THEN front ELSE Set(front, pid, PolicyOf(pid, f[pid]))

\* keys that differ in case only, and one that does not match them
LookupKeys == { <<"a","b">>, <<"a","B">>, <<"A","b">>, <<"c">> }
\* the names looked up; the empty name is `!med`
LookupNames == { <<"a","b">>, <<"A","B">>, <<"a","B">>, <<"c">>, <<>> }
\* values with three different interpretations
LookupValues == { Num(50), Str(sCovered), TypedObj(sNotCovered) }
\* object-form maps of up to MaxLookupKeys distinct keys, in every key order
LookupMaps ==
    { Obj(ps) : ps \in { q \in BoundedSeqs({Prop(key, v) : key \in LookupKeys, v \in LookupValues},
                                             MaxLookupKeys) :
                           \A i, j \in 1..Len(q) : q[i].key = q[j].key => i = j } }

\* item keys of the maps handed to the differ, in ascending order
DiffKeySeq == << <<"x">>, <<"y">>, <<"z">> >>
DiffKeys == Range(DiffKeySeq)

\* entries of the maps handed to the differ; the last two hold the same
\* fields written in a different property order
DiffEntries ==
    { NotCoveredEntry, TypedObj(sCovered),
      Obj(<<Prop(sType, Str(sPercent)), Prop(sPercent, Num(50)), Prop(sCopay, Num(10))>>),
      Obj(<<Prop(sPercent, Num(50)), Prop(sType, Str(sPercent)), Prop(sCopay, Num(10))>>) }

Reverse(s) == [i \in 1..Len(s) |-> s[Len(s) + 1 - i]]

\* the map holding f[key] for each key f does not leave out, keys inserted
\* in the order of ks
RECURSIVE MapOf(_, _)
MapOf(f, ks) ==
    IF Len(ks) = 0 THEN EmptyObj
    ELSE LET front == MapOf(f, SubSeq(ks, 1, Len(ks) - 1))
             key   == ks[Len(ks)]
         IN IF f[key] = NoEntry THEN front ELSE Set(front, key, f[key])

\* which key holds which entry: at most MaxKeys keys hold one
DiffShapes ==
    { f \in [DiffKeys -> DiffEntries \cup {NoEntry}] :
        Cardinality({key \in DiffKeys : f[key] # NoEntry}) <= MaxKeys }

\* the maps handed to the differ, in either insertion order; a version
\* without a coverage_map hands over null or undefined
DiffMaps ==
    {MapOf(f, DiffKeySeq) : f \in DiffShapes}
      \cup {MapOf(f, Reverse(DiffKeySeq)) : f \in DiffShapes}
      \cup {Null, Undefined}

----------------------------------------------------------------------------
(* The normalizers as a state machine: one call per step *)

NormIdle == raw = Null /\ med = <<>> /\ out = Undefined /\ op = "idle"
DiffIdle == base = EmptyObj /\ target = EmptyObj /\ rows = <<>> /\ dop = "idle"
EntryIdle == rawVal = Undefined /\ entry = Undefined /\ rank = -1 /\ eop = "idle"
BestIdle ==
    pids = <<>> /\ meds = <<>> /\ policyById = EmptyObj /\ best = Undefined /\ bop = "idle"
PageIdle ==
    /\ dedupe = FALSE /\ neededIds = {} /\ loadedIds = {} /\ fetchedRef = {}
    /\ effectDue = FALSE /\ inflight = {} /\ servable = {}
    /\ reqCount = <<>> /\ answeredIds = {} /\ updates = 0
DataIdle == NormIdle /\ DiffIdle /\ EntryIdle /\ BestIdle
BillIdle ==
    /\ billUser = "unknown" /\ billDue = FALSE /\ billReqs = {}
    /\ billLoading = FALSE /\ billIssued = 0
AuthIdle ==
    /\ authUser = "null" /\ authToken = "null"
    /\ storedUser = "null" /\ storedToken = "null"
    /\ isLoading = FALSE /\ logins = {} /\ loginCount = 0 /\ loggedOut = FALSE
PolIdle ==
    /\ fetched = <<>> /\ policies = <<>> /\ polError = "null"
    /\ compared = Null /\ allForCompany = Undefined
    /\ comparePair = Null /\ compareError = "null" /\ pop = "idle"
LoaderIdle ==
    /\ ldMounted = FALSE /\ ldRuns = {} /\ ldData = 0 /\ ldError = 0
    /\ ldLoading = FALSE /\ ldCount = 0 /\ ldStale = {}
SummaryIdle == summary = Undefined
UiIdle == PageIdle /\ BillIdle /\ AuthIdle /\ PolIdle /\ LoaderIdle /\ SummaryIdle

InitNorm ==
    /\ raw \in RawInputs
    /\ med = <<>>
    /\ out = Undefined
    /\ op = "init"
    /\ DiffIdle /\ EntryIdle /\ BestIdle /\ UiIdle

\* PatientPoliciesPage: normalizePolicy calls normalizeCoverageMap(coverage_map)
CallNormalizeCoverageMap ==
    /\ out' = normalizeCoverageMap(raw)
    /\ op' = "normalizeCoverageMap"
    /\ med' = <<>>
    /\ UNCHANGED <<raw, diffVars, entryVars, bestVars, uiVars>>

\* HospitalPage: hasEmptyCoverage calls normalizeCoverageMapLoose(coverage_map)
CallNormalizeCoverageMapLoose ==
    /\ out' = hospitalNormalizeCoverageMapLoose(raw)
    /\ op' = "normalizeCoverageMapLoose"
    /\ med' = <<>>
    /\ UNCHANGED <<raw, diffVars, entryVars, bestVars, uiVars>>

\* treatments page: getPolicyMedCoverage(policy, m)
CallGetPolicyMedCoverage ==
    \E m \in MedNames :
        /\ out' = getPolicyMedCoverage(raw, m)
        /\ op' = "getPolicyMedCoverage"
        /\ med' = m
        /\ UNCHANGED <<raw, diffVars, entryVars, bestVars, uiVars>>

NextNorm ==
    \/ CallNormalizeCoverageMap
    \/ CallNormalizeCoverageMapLoose
    \/ CallGetPolicyMedCoverage

SpecNorm == InitNorm /\ [][NextNorm]_vars

----------------------------------------------------------------------------
(* The differ as a state machine *)

InitDiff ==
    /\ NormIdle /\ EntryIdle /\ BestIdle /\ UiIdle
    /\ base \in DiffMaps
    /\ target \in DiffMaps
    /\ rows = <<>>
    /\ dop = "init"

\* CompareDialog / RecentChangesPage: rows = diffCoverageMaps(base, target);
\* a TypeError leaves rows as it was
CallDiffCoverageMaps ==
    /\ rows' = IF diffThrows(base, target) THEN rows ELSE diffCoverageMaps(base, target)
    /\ dop' = IF diffThrows(base, target) THEN "threw" ELSE "diff"
    /\ UNCHANGED <<normVars, base, target, entryVars, bestVars, uiVars>>

NextDiff == CallDiffCoverageMaps

SpecDiff == InitDiff /\ [][NextDiff]_vars

----------------------------------------------------------------------------
(* One entry value through interpretation and ranking *)

\* the key under which the single entry is stored
EntryKey == <<"a">>

InitEntry ==
    /\ rawVal \in EntryForms
    /\ entry = Undefined
    /\ rank = -1
    /\ eop = "init"
    /\ NormIdle /\ DiffIdle /\ BestIdle /\ UiIdle

\* part_008 getPolicyMedCoverage: interpretCoverage(map[matchedKey])
CallInterpretCoverage ==
    /\ entry' = interpretCoverage(rawVal)
    /\ eop' = "interpretCoverage"
    /\ rank' = -1
    /\ UNCHANGED <<rawVal, normVars, diffVars, bestVars, uiVars>>

\* part_008 getPolicyMedCoverage of a policy whose coverage_map is [{a: rawVal}]
CallGetPolicyMedCoverageOfArray ==
    /\ entry' = getPolicyMedCoverage(Arr(<<Obj(<<Prop(EntryKey, rawVal)>>)>>), EntryKey)
    /\ eop' = "getPolicyMedCoverageOfArray"
    /\ rank' = -1
    /\ UNCHANGED <<rawVal, normVars, diffVars, bestVars, uiVars>>

\* HospitalTreatmentsPage bestPolicyForIllness: entry = pol.coverage_map?.[m]
ReadEntry ==
    /\ entry' = rawVal
    /\ eop' = "readEntry"
    /\ rank' = -1
    /\ UNCHANGED <<rawVal, normVars, diffVars, bestVars, uiVars>>

\* PatientPoliciesPage normalizeCoverageMap of the array [{a: rawVal}]
CallNormalizeArrayItem ==
    /\ entry' = Get(normalizeCoverageMap(Arr(<<Obj(<<Prop(EntryKey, rawVal)>>)>>)), EntryKey)
    /\ eop' = "normalizeArrayItem"
    /\ rank' = -1
    /\ UNCHANGED <<rawVal, normVars, diffVars, bestVars, uiVars>>

\* PatientPoliciesPage normalizeCoverageMap of the object {a: rawVal}
CallNormalizeObjectEntry ==
    /\ entry' = Get(normalizeCoverageMap(Obj(<<Prop(EntryKey, rawVal)>>)), EntryKey)
    /\ eop' = "normalizeObjectEntry"
    /\ rank' = -1
    /\ UNCHANGED <<rawVal, normVars, diffVars, bestVars, uiVars>>

\* part_008 bestPolicyForIllness: rankCoverage(entry) of the interpreted entry
CallRankCoverage ==
    /\ eop = "interpretCoverage"
    /\ rank' = rankCoverage(entry)
    /\ eop' = "rankCoverage"
    /\ UNCHANGED <<rawVal, entry, normVars, diffVars, bestVars, uiVars>>

\* HospitalTreatmentsPage bestPolicyForIllness: rankCoverage(entry) of the read entry
CallTreatmentsRankCoverage ==
    /\ eop = "readEntry"
    /\ rank' = treatmentsRankCoverage(entry)
    /\ eop' = "treatmentsRankCoverage"
    /\ UNCHANGED <<rawVal, entry, normVars, diffVars, bestVars, uiVars>>

NextEntry ==
    \/ CallInterpretCoverage
    \/ CallGetPolicyMedCoverageOfArray
    \/ ReadEntry
    \/ CallNormalizeArrayItem
    \/ CallNormalizeObjectEntry
    \/ CallRankCoverage
    \/ CallTreatmentsRankCoverage

SpecEntry == InitEntry /\ [][NextEntry]_vars

----------------------------------------------------------------------------
(* fmtHospitalCoverageSummary: how many policies cover a medication fully,
   partially, not at all *)

NoCounts == [full |-> 0, partial |-> 0, none |-> 0]
counted(c, bucket) == [c EXCEPT ![bucket] = @ + 1]

\* part_008 line 213: getPolicyMedCoverage(pol, m), pol maybe undefined
summaryEntryOf(pol, m) == IF ~Truthy(pol) THEN Undefined ELSE entryOf(pol, m)

\* part_008 lines 214-216
bucketOf(e) == IF isFull(e) THEN "full" ELSE IF isNone(e) THEN "none" ELSE "partial"

\* HospitalTreatmentsPage.tsx lines 127-129
treatmentsBucketOf(e) ==
    IF ~Truthy(e) \/ IsStr(Get(e, sType), sNotCovered) THEN "none"
    ELSE IF \/ IsStr(Get(e, sType), sCovered)
            \/ (IsStr(Get(e, sType), sPercent) /\ NumGE(ToNumber(Get(e, sPercent)), Num(100)))
         THEN "full"
    ELSE "partial"

\* part_008 lines 211-217: the loop over allPolicyIds for medication m
RECURSIVE countLoop(_, _, _, _, _)
countLoop(c, ps, i, m, byId) ==
    IF i > Len(ps) THEN c
    ELSE countLoop(counted(c, bucketOf(summaryEntryOf(Get(byId, ps[i]), m))),
                   ps, i + 1, m, byId)

\* HospitalTreatmentsPage.tsx lines 123-130: a policy not loaded is skipped
RECURSIVE treatmentsCountLoop(_, _, _, _, _)
treatmentsCountLoop(c, ps, i, m, byId) ==
    IF i > Len(ps) THEN c
    ELSE LET pol == Get(byId, ps[i]) IN
         IF ~Truthy(pol) THEN treatmentsCountLoop(c, ps, i + 1, m, byId)
         ELSE treatmentsCountLoop(counted(c, treatmentsBucketOf(treatmentsEntryOf(pol, m))),
                                  ps, i + 1, m, byId)

RECURSIVE summaryLoop(_, _, _, _, _)
summaryLoop(o, ms, i, ps, byId) ==
    IF i > Len(ms) THEN o
    ELSE summaryLoop(Set(o, ms[i], countLoop(NoCounts, ps, 1, ms[i], byId)),
                     ms, i + 1, ps, byId)

RECURSIVE treatmentsSummaryLoop(_, _, _, _, _)
treatmentsSummaryLoop(o, ms, i, ps, byId) ==
    IF i > Len(ms) THEN o
    ELSE treatmentsSummaryLoop(Set(o, ms[i], treatmentsCountLoop(NoCounts, ps, 1, ms[i], byId)),
                               ms, i + 1, ps, byId)

\* part_008: fmtHospitalCoverageSummary(meds, allPolicyIds, policyById)
fmtHospitalCoverageSummary(ms, ps, byId) == summaryLoop(EmptyObj, ms, 1, ps, byId)

\* HospitalTreatmentsPage.tsx: fmtHospitalCoverageSummary
treatmentsFmtHospitalCoverageSummary(ms, ps, byId) ==
    treatmentsSummaryLoop(EmptyObj, ms, 1, ps, byId)

----------------------------------------------------------------------------
(* Recommending a policy for an illness *)

InitBest ==
    /\ pids \in BoundedSeqs(PolicyIds, MaxPolicies)
    /\ meds \in MedLists
    /\ \E f \in [PolicyIds -> PolicyMaps \cup {NoEntry}] : policyById = LoadedOf(f, PolicyIdSeq)
    /\ best = Undefined
    /\ bop = "init"
    /\ NormIdle /\ DiffIdle /\ EntryIdle /\ UiIdle

\* part_008: bestPolicyForIllness(getPolicyIds(p), meds, policyById)
CallBestPolicyForIllness ==
    /\ best' = bestPolicyForIllness(pids, meds, policyById)
    /\ bop' = "bestPolicyForIllness"
    /\ UNCHANGED <<pids, meds, policyById, normVars, diffVars, entryVars, uiVars>>

\* HospitalTreatmentsPage: bestPolicyForIllness(policyIds, meds, policyById)
CallTreatmentsBestPolicyForIllness ==
    /\ best' = treatmentsBestPolicyForIllness(pids, meds, policyById)
    /\ bop' = "treatmentsBestPolicyForIllness"
    /\ UNCHANGED <<pids, meds, policyById, normVars, diffVars, entryVars, uiVars>>

NextBest ==
    \/ CallBestPolicyForIllness
    \/ CallTreatmentsBestPolicyForIllness

SpecBest == InitBest /\ [][NextBest]_vars

----------------------------------------------------------------------------
(* The normalizers and the differ called again and again: a page calls the
   normalizers on a fetched coverage_map, or the differ on two versions *)

InitPure == InitNorm \/ InitDiff

NextPure ==
    \/ dop = "idle" /\ NextNorm
    \/ op = "idle" /\ NextDiff

SpecPure == InitPure /\ [][NextPure]_vars

----------------------------------------------------------------------------
(* Looking a medication up in a policy *)

InitLookup ==
    /\ raw \in LookupMaps
    /\ med = <<>>
    /\ out = Undefined
    /\ op = "init"
    /\ DiffIdle /\ EntryIdle /\ BestIdle /\ UiIdle

\* treatments page: getPolicyMedCoverage(policy, m) for a medication name m
CallLookup ==
    \E m \in LookupNames :
        /\ out' = getPolicyMedCoverage(raw, m)
        /\ op' = "getPolicyMedCoverage"
        /\ med' = m
        /\ UNCHANGED <<raw, diffVars, entryVars, bestVars, uiVars>>

NextLookup == CallLookup

SpecLookup == InitLookup /\ [][NextLookup]_vars

----------------------------------------------------------------------------
(* The treatments page loading the policies its patients refer to: the effect
   with dependencies [patients, policyById], in the copy that records the
   requested ids (part_008) and in the copy that does not
   (HospitalTreatmentsPage.tsx; RecentChangesPage has the same effect over
   [pairs, policiesById]) *)

PagePolicyIds == {"p1", "p2"}

\* the other pages are not in use
PageRest == BillIdle /\ AuthIdle /\ PolIdle /\ LoaderIdle /\ SummaryIdle

InitPage ==
    /\ dedupe \in BOOLEAN
    /\ servable \in SUBSET PagePolicyIds
    /\ neededIds = {}
    /\ loadedIds = {}
    /\ fetchedRef = {}
    /\ effectDue = TRUE
    /\ inflight = {}
    /\ reqCount = [id \in PagePolicyIds |-> 0]
    /\ answeredIds = {}
    /\ updates = 0
    /\ DataIdle /\ PageRest

\* setPatients(payload.data): the patient list is replaced
SetPatients ==
    \E S \in SUBSET PagePolicyIds :
        /\ updates < MaxUpdates
        /\ updates' = updates + 1
        /\ neededIds' = S
        /\ effectDue' = TRUE
        /\ UNCHANGED <<dedupe, loadedIds, fetchedRef, inflight, servable, reqCount,
                       answeredIds, pageOthers>>

\* the ids the effect decides to request
toFetch ==
    IF dedupe THEN {id \in neededIds : id \notin loadedIds /\ id \notin fetchedRef}
    ELSE {id \in neededIds : id \notin loadedIds}

\* the policy effect runs: the cleanup of its previous run sets cancelled,
\* then the missing ids are requested in one batch
RunPolicyEffect ==
    /\ effectDue
    /\ \A id \in toFetch : reqCount[id] < MaxRequests
    /\ effectDue' = FALSE
    /\ inflight' = {[b EXCEPT !.cancelled = TRUE] : b \in inflight}
                      \cup (IF toFetch = {} THEN {}
                            ELSE {[ids |-> toFetch, cancelled |-> FALSE]})
    /\ reqCount' = [id \in PagePolicyIds |->
                      IF id \in toFetch THEN reqCount[id] + 1 ELSE reqCount[id]]
    /\ fetchedRef' = IF dedupe THEN fetchedRef \cup toFetch ELSE fetchedRef
    /\ UNCHANGED <<dedupe, neededIds, loadedIds, servable, answeredIds, updates, pageOthers>>

\* Promise.allSettled resolves: a cancelled batch returns, any other merges
\* the fulfilled policies into a new policyById object
BatchSettles ==
    \E b \in inflight :
        /\ inflight' = inflight \ {b}
        /\ IF b.cancelled
           THEN UNCHANGED <<loadedIds, effectDue, answeredIds>>
           ELSE /\ loadedIds' = loadedIds \cup (b.ids \cap servable)
                /\ effectDue' = TRUE
                /\ answeredIds' = answeredIds \cup b.ids
        /\ UNCHANGED <<dedupe, neededIds, fetchedRef, servable, reqCount, updates, pageOthers>>

NextPage ==
    \/ SetPatients
    \/ RunPolicyEffect
    \/ BatchSettles

SpecPage == InitPage /\ [][NextPage]_vars

\* React runs a due effect and every request settles (response, error or abort)
SpecPageFair ==
    InitPage /\ [][NextPage]_vars /\ WF_vars(RunPolicyEffect) /\ WF_vars(BatchSettles)

----------------------------------------------------------------------------
(* PatientBillingPage.tsx: the recommendations effect over [userId] *)

BillUsers == {"unknown", "u1", "u2"}

InitBill ==
    /\ billUser \in BillUsers
    /\ billDue = TRUE
    /\ billReqs = {}
    /\ billLoading = FALSE
    /\ billIssued = 0
    /\ DataIdle /\ PageIdle /\ AuthIdle /\ PolIdle /\ LoaderIdle /\ SummaryIdle

\* useAuth() returns another user: userId changes (the effect of the
\* previous render has run by then)
ChangeUser ==
    \E u \in BillUsers \ {billUser} :
        /\ ~billDue
        /\ billUser' = u
        /\ billDue' = TRUE
        /\ UNCHANGED <<billReqs, billLoading, billIssued, billOthers>>

\* the effect runs: the previous run's cleanup aborts its request, then,
\* for a known user, setLoading(true) and the request is issued
RunBillingEffect ==
    /\ billDue
    /\ billDue' = FALSE
    /\ IF billUser = "unknown"
       THEN /\ billReqs' = {[r EXCEPT !.aborted = TRUE] : r \in billReqs}
            /\ UNCHANGED <<billLoading, billIssued>>
       ELSE /\ billIssued < MaxBillRequests
            /\ billIssued' = billIssued + 1
            /\ billLoading' = TRUE
            /\ billReqs' = {[r EXCEPT !.aborted = TRUE] : r \in billReqs}
                             \cup {[n |-> billIssued + 1, user |-> billUser, aborted |-> FALSE]}
    /\ UNCHANGED <<billUser, billOthers>>

\* a request's continuation runs (response, error or AbortError): whatever
\* the outcome, `finally` calls setLoading(false)
RecommendationsSettle ==
    \E r \in billReqs :
        /\ billReqs' = billReqs \ {r}
        /\ billLoading' = FALSE
        /\ UNCHANGED <<billUser, billDue, billIssued, billOthers>>

NextBill ==
    \/ ChangeUser
    \/ RunBillingEffect
    \/ RecommendationsSettle

SpecBill == InitBill /\ [][NextBill]_vars

----------------------------------------------------------------------------
(* part_000: the server-backed AuthProvider *)

AuthUsers == {"u1", "u2"}
AuthTokens == {"null", "t1", "t2"}

\* the session restored from localStorage at mount
StoredSessions ==
    {<<"null", "null">>, <<"u1", "null">>, <<"u1", "t1">>}

InitAuth ==
    /\ \E ss \in StoredSessions :
          /\ storedUser = ss[1] /\ storedToken = ss[2]
          /\ authUser = ss[1] /\ authToken = ss[2]
    /\ isLoading = FALSE
    /\ logins = {}
    /\ loginCount = 0
    /\ loggedOut = FALSE
    /\ DataIdle /\ PageIdle /\ BillIdle /\ PolIdle /\ LoaderIdle /\ SummaryIdle

\* login(email, password) up to its await fetch
StartLogin ==
    /\ loginCount < MaxLogins
    /\ loginCount' = loginCount + 1
    /\ isLoading' = TRUE
    /\ logins' = logins \cup {[n |-> loginCount + 1, beforeLogout |-> FALSE]}
    /\ UNCHANGED <<authUser, authToken, storedUser, storedToken, loggedOut, authOthers>>

\* a login response with a user and (maybe) a token: the session is set
\* and stored
LoginSucceeds ==
    \E r \in logins, u \in AuthUsers, t \in AuthTokens :
        /\ logins' = logins \ {r}
        /\ authUser' = u
        /\ authToken' = t
        /\ storedUser' = u
        /\ storedToken' = t
        /\ isLoading' = FALSE
        /\ loggedOut' = (loggedOut /\ r.beforeLogout)
        /\ UNCHANGED <<loginCount, authOthers>>

\* !res.ok, a payload without id or email, a network error or the timeout
LoginFails ==
    \E r \in logins :
        /\ logins' = logins \ {r}
        /\ isLoading' = FALSE
        /\ UNCHANGED <<authUser, authToken, storedUser, storedToken, loginCount, loggedOut, authOthers>>

\* logout() up to its await fetch (nothing follows the await)
Logout ==
    /\ authUser' = "null"
    /\ authToken' = "null"
    /\ storedUser' = "null"
    /\ storedToken' = "null"
    /\ loggedOut' = TRUE
    /\ logins' = {[r EXCEPT !.beforeLogout = TRUE] : r \in logins}
    /\ UNCHANGED <<isLoading, loginCount, authOthers>>

NextAuth ==
    \/ StartLogin
    \/ LoginSucceeds
    \/ LoginFails
    \/ Logout

SpecAuth == InitAuth /\ [][NextAuth]_vars

----------------------------------------------------------------------------
(* part_006: PoliciesPage *)

sSep == <<":", ":">>

\* a ?? b
Coalesce(a, b) == IF a.k \in {"undefined", "null"} THEN b ELSE a

\* `${p.insuranceCompanyRef ?? ""}::${p.name ?? p.id}`
policyKey(p) ==
    Coalesce(p.insuranceCompanyRef, Str(<<>>)).s \o sSep \o Coalesce(p.name, Str(p.id)).s

\* p.version ?? 0
versionOrZero(p) == Coalesce(p.version, Num(0)).n

\* the Map of the loop, in insertion order; Map.set on a key it has keeps
\* the key's place
RECURSIVE latestLoop(_, _, _)
latestLoop(all, i, latestMap) ==
    IF i > Len(all) THEN latestMap
    ELSE LET p   == all[i]
             key == policyKey(p)
             at  == {j \in 1..Len(latestMap) : latestMap[j].key = key}
         IN IF at = {}
            THEN latestLoop(all, i + 1, Append(latestMap, Prop(key, p)))
            ELSE LET j == CHOOSE j \in at : TRUE
                 IN IF versionOrZero(p) > versionOrZero(latestMap[j].val)
                    THEN latestLoop(all, i + 1, [latestMap EXCEPT ![j] = Prop(key, p)])
                    ELSE latestLoop(all, i + 1, latestMap)

\* Array.from(latestMap.values())
latestOf(all) ==
    LET latestMap == latestLoop(all, 1, <<>>)
    IN [j \in 1..Len(latestMap) |-> latestMap[j].val]

SlashAt(s) == {i \in 1..Len(s) : s[i] = "/"}
FirstSlash(s) == CHOOSE i \in SlashAt(s) : \A j \in SlashAt(s) : i <= j

\* s.split("/")[1]
secondSegment(s) ==
    IF SlashAt(s) = {} THEN Undefined
    ELSE LET rest == SubSeq(s, FirstSlash(s) + 1, Len(s))
         IN IF SlashAt(rest) = {} THEN Str(rest)
            ELSE Str(SubSeq(rest, 1, FirstSlash(rest) - 1))

\* ref?.split("/")[1]
companyIdOf(ref) ==
    IF ref.k \in {"undefined", "null"} THEN Undefined ELSE secondSegment(ref.s)

\* all.filter((p) => (p.insuranceCompanyRef?.split("/")[1] ?? "") === companyId)
ofCompany(all, companyId) ==
    LET Belongs(p) == Coalesce(companyIdOf(p.insuranceCompanyRef), Str(<<>>)) = companyId
    IN SelectSeq(all, Belongs)

\* how the two requests of fetchCompanyPoliciesWithFallback can end: the
\* company endpoint answers with the company's policies, or with a payload
\* whose data is no array, or fails and the global list is filtered, or
\* both requests fail
FetchOutcomes == {"company", "noArray", "fallback", "error"}

fetchCompanyPoliciesWithFallback(companyId, outcome, all) ==
    CASE outcome = "company"  -> Arr(ofCompany(all, companyId))
      [] outcome = "noArray"  -> Arr(<<>>)
      [] outcome = "fallback" -> Arr(ofCompany(all, companyId))
      [] OTHER                -> Throw

\* (a, b) => (a.version > b.version ? a : b)
higherVersion_First(a, b) == a
higherVersion(a, b) == IF a.version.n > b.version.n THEN a ELSE b

\* candidates.reduce(...) without an initial value
RECURSIVE reduceFrom(_, _, _)
reduceFrom(candidates, i, acc) ==
    IF i > Len(candidates) THEN acc
    ELSE reduceFrom(candidates, i + 1, higherVersion(acc, candidates[i]))

\* allForCompany.filter((p) => p.name === current.name && p.version < current.version)
candidatesOf(list, current) ==
    LET IsLower(p) == p.name = current.name /\ p.version.n < current.version.n
    IN SelectSeq(list, IsLower)

\* handleCompareWithPrevious(current): the comparePair and compareError it
\* leaves, and the list it fetched
handleCompareWithPrevious(current, outcome, all) ==
    LET companyId == companyIdOf(current.insuranceCompanyRef)
    IN IF ~Truthy(companyId)
       THEN [list |-> Undefined, pair |-> Null, error |-> "Missing insurance company reference."]
       ELSE LET list == fetchCompanyPoliciesWithFallback(companyId, outcome, all)
            IN IF list.k = "throw"
               THEN [list |-> Throw, pair |-> Null, error |-> "Failed fallback fetch"]
               ELSE LET candidates == candidatesOf(list.items, current)
                    IN IF Len(candidates) = 0
                       THEN [list |-> list, pair |-> Null,
                             error |-> "No previous version found for this policy."]
                       ELSE [list |-> list,
                             pair |-> [current |-> current,
                                       previous |-> reduceFrom(candidates, 2, candidates[1])],
                             error |-> "null"]

\* insuranceCompanyRef, name and version of the policies the server holds
sRefC      == <<"k", "/", "c">>
sRefCColon == <<"k", "/", "c", ":">>
sNameN     == <<"n">>
sNameColonN == <<":", "n">>
PolicyShape(ref, name, version) ==
    [insuranceCompanyRef |-> ref, name |-> Str(name), version |-> Num(version)]
PolicyShapes ==
    {PolicyShape(Str(sRefC), sNameN, 1), PolicyShape(Str(sRefC), sNameN, 2),
     PolicyShape(Str(sRefC), sNameN, 3), PolicyShape(Str(sRefC), sNameColonN, 1),
     PolicyShape(Str(sRefC), sNameColonN, 2), PolicyShape(Str(sRefCColon), sNameN, 1),
     PolicyShape(Str(sRefCColon), sNameN, 2), PolicyShape(Undefined, sNameN, 1)}

\* the list of a response: policy i has id i
BackendPolicyAt(shape, i) ==
    [id |-> <<Digits[i + 1]>>, name |-> shape.name, version |-> shape.version,
     insuranceCompanyRef |-> shape.insuranceCompanyRef]
FetchedLists ==
    UNION {{[i \in 1..n |-> BackendPolicyAt(l[i], i)] : l \in [1..n -> PolicyShapes]}
           : n \in 0..MaxFetched}

InitPolicies ==
    /\ fetched \in FetchedLists
    /\ policies = <<>>
    /\ polError = "null"
    /\ compared = Null
    /\ allForCompany = Undefined
    /\ comparePair = Null
    /\ compareError = "null"
    /\ pop = "init"
    /\ DataIdle /\ PageIdle /\ BillIdle /\ AuthIdle /\ LoaderIdle /\ SummaryIdle

\* the loading effect, GET /policies answered
LoadPolicies ==
    /\ pop = "init"
    /\ policies' = latestOf(fetched)
    /\ pop' = "loaded"
    /\ UNCHANGED <<fetched, polError, compared, allForCompany, comparePair, compareError, polOthers>>

\* the loading effect, GET /policies failed
LoadPoliciesFails ==
    /\ pop = "init"
    /\ polError' = "Failed to load policies"
    /\ pop' = "failed"
    /\ UNCHANGED <<fetched, policies, compared, allForCompany, comparePair, compareError, polOthers>>

\* "Compare with previous" on one of the listed policies
CallHandleCompareWithPrevious ==
    /\ pop \in {"loaded", "compared"}
    /\ \E i \in 1..Len(policies), outcome \in FetchOutcomes :
         LET r == handleCompareWithPrevious(policies[i], outcome, fetched)
         IN /\ compared' = policies[i]
            /\ allForCompany' = r.list
            /\ comparePair' = r.pair
            /\ compareError' = r.error
    /\ pop' = "compared"
    /\ UNCHANGED <<fetched, policies, polError, polOthers>>

NextPolicies ==
    \/ LoadPolicies
    \/ LoadPoliciesFails
    \/ CallHandleCompareWithPrevious

SpecPolicies == InitPolicies /\ [][NextPolicies]_vars

----------------------------------------------------------------------------
(* The loading effects guarded by a `cancelled` flag: HospitalPage.tsx,
   PatientPoliciesPage.tsx (over [user?.id, user?.email]) and part_010 *)

InitLoader ==
    /\ ldMounted = TRUE
    /\ ldRuns = {}
    /\ ldData = 0
    /\ ldError = 0
    /\ ldLoading \in BOOLEAN       \* useState(true) or useState(false)
    /\ ldCount = 0
    /\ ldStale = {}
    /\ DataIdle /\ PageIdle /\ BillIdle /\ AuthIdle /\ PolIdle /\ SummaryIdle

\* the cleanup of the previous run: cancelled = true; ctrl.abort()
cleanedUp(runs) == {[r EXCEPT !.cancelled = TRUE] : r \in runs}

\* the effect runs (at mount, or after a dependency changed): the previous
\* run is cleaned up; setLoading(true); setError(null); the request goes out
RunLoadEffect ==
    /\ ldMounted
    /\ ldCount < MaxRuns
    /\ ldCount' = ldCount + 1
    /\ ldRuns' = cleanedUp(ldRuns)
                   \cup {[n |-> ldCount + 1, cancelled |-> FALSE, phase |-> "fetch"]}
    /\ ldLoading' = TRUE
    /\ ldError' = 0
    /\ UNCHANGED <<ldMounted, ldData, ldStale, ldOthers>>

\* the component unmounts: the cleanup runs
Unmount ==
    /\ ldMounted
    /\ ldMounted' = FALSE
    /\ ldRuns' = cleanedUp(ldRuns)
    /\ UNCHANGED <<ldData, ldError, ldLoading, ldCount, ldStale, ldOthers>>

\* await fetch(...) resolves with an ok response; await res.json() follows
ResponseArrives ==
    \E r \in ldRuns :
        /\ r.phase = "fetch"
        /\ ldRuns' = (ldRuns \ {r}) \cup {[r EXCEPT !.phase = "json"]}
        /\ UNCHANGED <<ldMounted, ldData, ldError, ldLoading, ldCount, ldStale, ldOthers>>

\* if (!cancelled)
mayUpdate_Unguarded(r) == TRUE
mayUpdate(r) == ~r.cancelled

\* the payload is parsed: if (!cancelled) set...(data); finally
\* if (!cancelled) setLoading(false)
LoadSucceeds ==
    \E r \in ldRuns :
        /\ r.phase = "json"
        /\ ldRuns' = ldRuns \ {r}
        /\ ldData' = IF mayUpdate(r) THEN r.n ELSE ldData
        /\ ldLoading' = IF mayUpdate(r) THEN FALSE ELSE ldLoading
        /\ ldStale' = IF r.cancelled THEN ldStale \cup {r.n} ELSE ldStale
        /\ UNCHANGED <<ldMounted, ldError, ldCount, ldOthers>>

\* the request is rejected (network, abort), the response is not ok or
\* not JSON: catch: if (!cancelled) setError(...); finally as above
LoadFails ==
    \E r \in ldRuns :
        /\ ldRuns' = ldRuns \ {r}
        /\ ldError' = IF mayUpdate(r) THEN r.n ELSE ldError
        /\ ldLoading' = IF mayUpdate(r) THEN FALSE ELSE ldLoading
        /\ ldStale' = IF r.cancelled THEN ldStale \cup {r.n} ELSE ldStale
        /\ UNCHANGED <<ldMounted, ldData, ldCount, ldOthers>>

NextLoader ==
    \/ RunLoadEffect
    \/ Unmount
    \/ ResponseArrives
    \/ LoadSucceeds
    \/ LoadFails

SpecLoader == InitLoader /\ [][NextLoader]_vars

----------------------------------------------------------------------------
(* The coverage summary of an illness card *)

\* the coverage maps of PolicyMaps, and one whose percentage is 0
SummaryMaps ==
    PolicyMaps
    \cup { Obj(<<Prop(MedM, TypedPercent(Num(0))), Prop(MedN, TypedPercent(Num(50)))>>) }

\* Array.from(allPolicyIds): a Set's ids, each once
DistinctSeqs(S, n) ==
    {q \in BoundedSeqs(S, n) : \A i, j \in 1..Len(q) : q[i] = q[j] => i = j}

InitSummary ==
    /\ pids \in DistinctSeqs(PolicyIds, MaxPolicies)
    /\ meds \in MedLists
    /\ \E f \in [PolicyIds -> SummaryMaps \cup {NoEntry}] : policyById = LoadedOf(f, PolicyIdSeq)
    /\ best = Undefined
    /\ bop = "init"
    /\ summary = Undefined
    /\ NormIdle /\ DiffIdle /\ EntryIdle
    /\ PageIdle /\ BillIdle /\ AuthIdle /\ PolIdle /\ LoaderIdle

\* part_008 line 388
CallFmtHospitalCoverageSummary ==
    /\ summary' = fmtHospitalCoverageSummary(meds, pids, policyById)
    /\ bop' = "fmtHospitalCoverageSummary"
    /\ UNCHANGED <<pids, meds, policyById, best, sumOthers>>

\* HospitalTreatmentsPage.tsx line 288
CallTreatmentsFmtHospitalCoverageSummary ==
    /\ summary' = treatmentsFmtHospitalCoverageSummary(meds, pids, policyById)
    /\ bop' = "treatmentsFmtHospitalCoverageSummary"
    /\ UNCHANGED <<pids, meds, policyById, best, sumOthers>>

NextSummary ==
    \/ CallFmtHospitalCoverageSummary
    \/ CallTreatmentsFmtHospitalCoverageSummary

SpecSummary == InitSummary /\ [][NextSummary]_vars

----------------------------------------------------------------------------
(* Claims about the normalizers (checked under SpecNorm) *)

IsPercentEntry(e) == e.k = "object" /\ IsStr(Get(e, sType), sPercent)
InPercentRange(p) == p.k = "number" /\ 0 <= p.n /\ p.n <= 100
Entries(m) == { m.props[i].val : i \in 1..Len(m.props) }

\* C1: every entry of type percent in a normalizer's output has
\* 0 <= percent <= 100, whatever percent the raw map supplied.
\* normalizeCoverageMap does not clamp the percent of a typed entry.
C1_PercentClamped ==
    /\ op = "normalizeCoverageMap" =>
          \A e \in Entries(out) : IsPercentEntry(e) => InPercentRange(Get(e, sPercent))
    /\ op = "getPolicyMedCoverage" =>
          (IsPercentEntry(out) => InPercentRange(Get(out, sPercent)))

RecognizedType(v) ==
    IsStr(Get(v, sType), sCovered) \/ IsStr(Get(v, sType), sNotCovered)
        \/ IsStr(Get(v, sType), sPercent)
\* a typed object whose type is a string the normalizer does not know
UnrecognizedTyped(v) ==
    v.k = "object" /\ Get(v, sType).k = "string" /\ ~RecognizedType(v)
\* a number, or a typed object of a known type
RecognizedValue(v) == v.k = "number" \/ (v.k = "object" /\ RecognizedType(v))

\* the (name, value) pairs of a raw map whose items are all well formed and
\* name distinct items; {} for every other raw value
WellFormedArray(r) ==
    /\ r.k = "array"
    /\ \A i \in 1..Len(r.items) : r.items[i].k = "object" /\ Len(r.items[i].props) = 1
    /\ \A i, j \in 1..Len(r.items) :
          r.items[i].props[1].key = r.items[j].props[1].key => i = j
NamedEntries(r) ==
    IF WellFormedArray(r) THEN { r.items[i].props[1] : i \in 1..Len(r.items) }
    ELSE IF r.k = "object" THEN { r.props[i] : i \in 1..Len(r.props) }
    ELSE {}

\* C2: an entry whose value is a typed object with an unrecognized type is
\* absent from the output of normalizeCoverageMap, in array and in object
\* form, and the recognized entries of the same input are present.
\* The array form stores any object that has a `type` as it came.
C2_UnrecognizedDropped ==
    op = "normalizeCoverageMap" =>
        \A p \in NamedEntries(raw) :
            /\ UnrecognizedTyped(p.val) => ~HasKey(out, p.key)
            /\ RecognizedValue(p.val) => HasKey(out, p.key)

\* C3: normalizing [{k: v}] and normalizing {k: v} give the same canonical
\* map (compared as JSON.stringify writes them, so that a property holding
\* undefined counts as absent).
C3_ArrayObjectEquivalent ==
    (op = "normalizeCoverageMap" /\ WellFormedArray(raw) /\ Len(raw.items) = 1) =>
        JSONstringify(out) = JSONstringify(normalizeCoverageMap(raw.items[1]))

\* C4: the normalizers are total: for every raw value they return a map and
\* raise no error, and for null and undefined they return the empty map.
C4_NormalizerTotal ==
    op \in {"normalizeCoverageMap", "normalizeCoverageMapLoose"} =>
        /\ out # Throw
        /\ out.k = "object"
        /\ raw \in {Null, Undefined} => out = EmptyObj

\* C4 witness: an array with a null item and a keyless item was normalized,
\* and the well-formed item after them came through.
C4_Witness ==
    /\ op = "normalizeCoverageMap"
    /\ raw = Arr(<<Null, Obj(<<Prop(<<"a">>, Num(50))>>)>>)
    /\ out = Obj(<<Prop(<<"a">>, PercentEntry(Num(50)))>>)

----------------------------------------------------------------------------
(* Claims about the differ (checked under SpecDiff) *)

KeysOf(m) == Range(ObjectKeys(m))
Kinds(rs) == { rs[i].kind : i \in 1..Len(rs) }

\* field-by-field equality of two entries: tag, percent and copay (a field
\* that is absent and a field that holds undefined both read undefined)
FieldsEqual(a, b) ==
    /\ Get(a, sType) = Get(b, sType)
    /\ Get(a, sPercent) = Get(b, sPercent)
    /\ Get(a, sCopay) = Get(b, sCopay)

\* the rows the contract asks for one key
ExpectedRows(b, t, key) ==
    IF HasKey(b, key) /\ ~HasKey(t, key)
      THEN { DiffRow("removed", key, Get(b, key), Undefined) }
    ELSE IF ~HasKey(b, key) /\ HasKey(t, key)
      THEN { DiffRow("added", key, Undefined, Get(t, key)) }
    ELSE IF HasKey(b, key) /\ HasKey(t, key) /\ ~FieldsEqual(Get(b, key), Get(t, key))
      THEN { DiffRow("changed", key, Get(b, key), Get(t, key)) }
    ELSE {}

\* C5: diffCoverageMaps emits, for every key of the union, exactly Removed /
\* Added / Changed as the key is only in base / only in target / in both
\* with unequal entries, no row for equal entries, and never two rows for
\* one key.  Entries that hold the same fields in another property order
\* get a Changed row (see C10).
C5_RowsExactlyPerKey ==
    dop = "diff" =>
        /\ \A i, j \in 1..Len(rows) : rows[i].key = rows[j].key => i = j
        /\ Range(rows) = UNION { ExpectedRows(base, target, key) :
                                    key \in KeysOf(base) \cup KeysOf(target) }

\* the position of a differ key in ascending key order
KeyIndex(key) == IndexOf(key, DiffKeySeq)
KindIndex(kind) == IndexOf(kind, <<"added", "changed", "removed">>)

\* C6: in the returned rows every Added row precedes every Changed row and
\* every Changed row precedes every Removed row, and rows of one kind are in
\* ascending key order.
C6_RowsSorted ==
    dop = "diff" =>
        \A i, j \in 1..Len(rows) :
            i < j =>
                /\ KindIndex(rows[i].kind) <= KindIndex(rows[j].kind)
                /\ rows[i].kind = rows[j].kind => KeyIndex(rows[i].key) < KeyIndex(rows[j].key)

\* C6 witness: three rows, one Added and two Removed, came out in another
\* order than the loop pushed them.
C6_Witness ==
    /\ dop = "diff"
    /\ Len(rows) = 3
    /\ rows[1].kind = "added" /\ rows[2].kind = "removed" /\ rows[3].kind = "removed"
    /\ pushRows(base, target, unionKeys(base, target)) # rows

\* the maps of the sort-order scenario:
\* base {x: NotCovered, z: Covered}, target {x: Covered, y: Covered}
IsMap2(m, k1, e1, k2, e2) ==
    /\ m.k = "object" /\ Len(m.props) = 2
    /\ Get(m, k1) = e1 /\ Get(m, k2) = e2
SortScenario ==
    /\ IsMap2(base, <<"x">>, NotCoveredEntry, <<"z">>, TypedObj(sCovered))
    /\ IsMap2(target, <<"x">>, TypedObj(sCovered), <<"y">>, TypedObj(sCovered))

KindsAndKeys(rs) == [i \in 1..Len(rs) |-> <<rs[i].kind, rs[i].key>>]

\* C7 as stated: for the scenario the rows come in the order
\* Changed(x), Added(y), Removed(z).
C7_ScenarioOrderChangedFirst ==
    (dop = "diff" /\ SortScenario) =>
        KindsAndKeys(rows) = << <<"changed", <<"x">>>>, <<"added", <<"y">>>>,
                                <<"removed", <<"z">>>> >>

\* C7 amended: for the scenario the rows come in the order
\* Added(y), Changed(x), Removed(z).
C7_ScenarioOrderAddedFirst ==
    (dop = "diff" /\ SortScenario) =>
        rows = << DiffRow("added", <<"y">>, Undefined, TypedObj(sCovered)),
                  DiffRow("changed", <<"x">>, NotCoveredEntry, TypedObj(sCovered)),
                  DiffRow("removed", <<"z">>, TypedObj(sCovered), Undefined) >>

\* C7 witness: the scenario's maps were diffed.
C7_Witness == dop = "diff" /\ SortScenario /\ Len(rows) = 3

\* the row diff(B, A) must hold for a row of diff(A, B)
Mirror(r) ==
    CASE r.kind = "added"   -> DiffRow("removed", r.key, r.after, Undefined)
      [] r.kind = "removed" -> DiffRow("added", r.key, Undefined, r.before)
      [] OTHER              -> DiffRow("changed", r.key, r.after, r.before)

\* C8: diff(A, B) and diff(B, A) hold the same keys; Added in one is Removed
\* in the other with the same entry, Changed in one is Changed in the other
\* with before and after swapped.
C8_DiffSymmetric ==
    dop = "diff" =>
        Range(diffCoverageMaps(target, base)) = { Mirror(rows[i]) : i \in 1..Len(rows) }

\* C8 witness: a diff with an Added, a Changed and a Removed row.
C8_Witness == dop = "diff" /\ Kinds(rows) = {"added", "changed", "removed"}

\* C9: diffCoverageMaps(A, A) is the empty sequence.
C9_SelfDiffEmpty == (dop = "diff" /\ base = target) => rows = <<>>

\* C9 witness: a map of two entries, one of them a percent entry, was
\* diffed with itself.
C9_Witness ==
    /\ dop = "diff" /\ base = target /\ base.k = "object" /\ Len(base.props) = 2
    /\ \E e \in Entries(base) : IsPercentEntry(e)
    /\ rows = <<>>

\* C10: a key present in both maps yields a Changed row exactly when the
\* tag, the percent or the copay of its two entries differs, however the
\* entry objects were built.  isEqualCoverage compares JSON.stringify texts,
\* which differ when the same fields were written in another order.
C10_ChangedIffFieldsDiffer ==
    dop = "diff" =>
        \A key \in KeysOf(base) \cap KeysOf(target) :
            (\E i \in 1..Len(rows) : rows[i].key = key /\ rows[i].kind = "changed")
                <=> ~FieldsEqual(Get(base, key), Get(target, key))

----------------------------------------------------------------------------
(* Claims about ranking (checked under SpecEntry) *)

\* a CoverageEntry of the declared type, or a missing entry
IsCoverageEntry(e) ==
    \/ e = Undefined
    \/ /\ e.k = "object"
       /\ \/ IsStr(Get(e, sType), sCovered)
          \/ IsStr(Get(e, sType), sNotCovered)
          \/ IsStr(Get(e, sType), sPercent) /\ Get(e, sPercent).k = "number"

\* the rank the specification tabulates
RankTable(e) ==
    IF e = Undefined THEN 0
    ELSE IF IsStr(Get(e, sType), sCovered) THEN 3
    ELSE IF IsStr(Get(e, sType), sNotCovered) THEN 0
    ELSE IF Get(e, sPercent).n >= 100 THEN 3
    ELSE IF Get(e, sPercent).n <= 0 THEN 0
    ELSE 2

\* C11: rankCoverage is 3 for Covered and for Percent(p >= 100), 0 for
\* Percent(p <= 0), NotCovered and a missing entry, 2 for every other
\* Percent; both copies of rankCoverage give every such entry the same rank.
C11_RankTable ==
    /\ eop = "rankCoverage" => IsCoverageEntry(entry) /\ rank = RankTable(entry)
    /\ eop = "treatmentsRankCoverage" /\ IsCoverageEntry(entry) => rank = RankTable(entry)
    /\ IsCoverageEntry(entry) => rankCoverage(entry) = treatmentsRankCoverage(entry)

\* the unnormalised entry Percent(150) was ranked 3 by the treatments page
C11_Witness ==
    /\ eop = "treatmentsRankCoverage"
    /\ entry = TypedPercent(Num(150))
    /\ rank = 3
    /\ rankCoverage(interpretCoverage(rawVal)) = 3

----------------------------------------------------------------------------
(* Claims about the recommendation (checked under SpecBest) *)

RECURSIVE SumOf(_, _)
SumOf(f, n) == IF n = 0 THEN 0 ELSE f[n] + SumOf(f, n - 1)

\* the score of the policy stored under pid, for the copy that ran
ScoreOf(pid) ==
    LET pol == Get(policyById, pid) IN
    SumOf([i \in 1..Len(meds) |->
             IF bop = "bestPolicyForIllness" THEN rankCoverage(entryOf(pol, meds[i]))
             ELSE treatmentsRankCoverage(treatmentsEntryOf(pol, meds[i]))], Len(meds))

\* positions of the patient's list whose policy is loaded
LoadedAt == {i \in 1..Len(pids) : HasKey(policyById, pids[i])}

\* C12: the returned policy is a loaded policy of the patient's list whose
\* score (the sum of rankCoverage over the medications) is maximal, and of
\* the policies with that score it is the first in the list; the returned
\* score is that sum.
C12_FirstMaximalPolicy ==
    bop \in {"bestPolicyForIllness", "treatmentsBestPolicyForIllness"} /\ LoadedAt # {} =>
        \E i \in LoadedAt :
            /\ Get(best, sPolicyId) = Str(pids[i])
            /\ Get(best, sScore) = Num(ScoreOf(pids[i]))
            /\ \A j \in LoadedAt : ScoreOf(pids[j]) <= ScoreOf(pids[i])
            /\ \A j \in LoadedAt : j < i => ScoreOf(pids[j]) < ScoreOf(pids[i])

\* two loaded policies tie at the maximal score 3 and the first is returned
C12_Witness ==
    /\ bop = "bestPolicyForIllness"
    /\ Len(pids) = 2 /\ pids[1] # pids[2] /\ LoadedAt = {1, 2}
    /\ ScoreOf(pids[1]) = 3 /\ ScoreOf(pids[2]) = 3
    /\ Get(best, sPolicyId) = Str(pids[1])

----------------------------------------------------------------------------
(* Claims about single entries (checked under SpecEntry) *)

\* the functions that turn a raw entry value into a CoverageEntry
Normalizing ==
    {"interpretCoverage", "getPolicyMedCoverageOfArray",
     "normalizeArrayItem", "normalizeObjectEntry"}

IsNotCoveredEntry(e) == e.k = "object" /\ IsStr(Get(e, sType), sNotCovered)
IsCoveredEntry(e) == e.k = "object" /\ IsStr(Get(e, sType), sCovered)
IsPercentOf(e, n) == IsPercentEntry(e) /\ Get(e, sPercent) = Num(n)

\* C13: a raw number v gives NotCovered for v <= 0 and Percent(min(v, 100))
\* for v > 0, whether it came in an array item or under an object key.
C13_NumericEntry ==
    eop \in Normalizing /\ rawVal.k = "number" =>
        IF rawVal.n <= 0 THEN IsNotCoveredEntry(entry)
        ELSE IsPercentOf(entry, IF rawVal.n < 100 THEN rawVal.n ELSE 100)

\* 150 in an array item became Percent(100)
C13_Witness ==
    eop = "normalizeArrayItem" /\ rawVal = Num(150) /\ IsPercentOf(entry, 100)

\* the number the claim expects for a raw percent: Number(percent), 0 for NaN
Coerced(p) == OrElse(ToNumber(p), Num(0))

\* C14: a typed object is normalized by its type: "covered" gives Covered
\* with the input's copay, "not_covered" gives NotCovered, "percent" gives
\* Percent with the input's copay and the input's percent coerced to a
\* number, 0 when it is missing or not a number (the clamping of C1 may
\* have been applied to that number as well).
\* The array branch of normalizeCoverageMap stores the object uncoerced.
C14_TypedEntry ==
    eop \in Normalizing /\ rawVal.k = "object" /\ RecognizedType(rawVal) =>
        IF IsStr(Get(rawVal, sType), sCovered)
        THEN IsCoveredEntry(entry) /\ Get(entry, sCopay) = Get(rawVal, sCopay)
        ELSE IF IsStr(Get(rawVal, sType), sNotCovered)
        THEN IsNotCoveredEntry(entry)
        ELSE /\ IsPercentEntry(entry)
             /\ Get(entry, sCopay) = Get(rawVal, sCopay)
             /\ Get(entry, sPercent) \in
                    {Coerced(Get(rawVal, sPercent)), clamp(Coerced(Get(rawVal, sPercent)))}

\* what the claim says of each string of StringForms, written out by hand
CoveredStrings == { Str(<<"c","o","v","e","r","e","d">>), Str(<<" ","F","u","l","l"," ">>), Str(<<"C","O","V","E","R","E","D">>), Str(<<"f","u","l","l">>) }
NotCoveredStrings ==
    { Str(<<"n","o","t"," ","c","o","v","e","r","e","d">>),
      Str(<<"n","o","t","_","c","o","v","e","r","e","d">>),
      Str(<<"N","o","n","e">>),
      Str(<<"N","O","T","_","C","O","V","E","R","E","D">>),
      Str(<<"0">>),
      Str(<<"0","%">>) }
PercentStrings ==
    { <<Str(<<"5","0">>), 50>>,
      <<Str(<<"5","0","%">>), 50>>,
      <<Str(<<"5","0"," ","%">>), 50>>,
      <<Str(<<" ","1","5","0","%"," ">>), 100>>,
      <<Str(<<"1","0","0">>), 100>> }

MatchesStringTable(v, e) ==
    IF v \in CoveredStrings THEN IsCoveredEntry(e)
    ELSE IF v \in NotCoveredStrings THEN IsNotCoveredEntry(e)
    ELSE IF \E p \in PercentStrings : p[1] = v
         THEN \E p \in PercentStrings : p[1] = v /\ IsPercentOf(e, p[2])
    ELSE e = Undefined

IsTypedPercentZero(v) == v.k = "object" /\ IsPercentEntry(v) /\ Get(v, sPercent) = Num(0)

\* C16: {type: "percent", percent: 0} stays a Percent entry with percent 0
\* (it does not become NotCovered), and its rank is 0, the rank of
\* NotCovered.
C16_PercentZeroKept ==
    IsTypedPercentZero(rawVal) =>
        /\ eop \in Normalizing => IsPercentOf(entry, 0)
        /\ eop = "rankCoverage" =>
              IsPercentOf(entry, 0) /\ rank = 0 /\ rank = rankCoverage(NotCoveredEntry)

\* {type: "percent", percent: 0, copay: 10} was interpreted and ranked 0
C16_Witness ==
    /\ eop = "rankCoverage"
    /\ rawVal = PercentCopayEntry(Num(0), Num(10))
    /\ IsPercentOf(entry, 0) /\ Get(entry, sCopay) = Num(10)
    /\ rank = 0

----------------------------------------------------------------------------
(* Claims about the array form (checked under SpecNorm) *)

\* positions of the array's items that are objects with at least one key
KeyedItems(r) ==
    {i \in 1..Len(r.items) : r.items[i].k = "object" /\ Len(r.items[i].props) > 0}
FirstKeyAt(r, i) == r.items[i].props[1].key
FirstKeys(r) == {FirstKeyAt(r, i) : i \in KeyedItems(r)}
\* the last item of the array whose first key is key
LastWith(r, key) ==
    r.items[CHOOSE i \in KeyedItems(r) :
               /\ FirstKeyAt(r, i) = key
               /\ \A j \in KeyedItems(r) : FirstKeyAt(r, j) = key => j <= i]
\* the array holding that item alone
Alone(item) == Arr(<<item>>)

\* C17: in the array form only the first key of an item contributes, items
\* without a key are skipped, and the entry of a key that several items
\* carry is the interpretation of the last of them: what the normalizer
\* gives for that item alone.
\* normalizeCoverageMap keeps the entry of an earlier item when it drops
\* the last one.
C17_ArrayLastWins ==
    raw.k = "array" =>
        /\ op = "normalizeCoverageMap" =>
              /\ \A i \in 1..Len(ObjectKeys(out)) : ObjectKeys(out)[i] \in FirstKeys(raw)
              /\ \A key \in FirstKeys(raw) :
                    Get(out, key) = Get(normalizeCoverageMap(Alone(LastWith(raw, key))), key)
        /\ op = "getPolicyMedCoverage" =>
              /\ \A i \in 1..Len(ObjectKeys(normalizeCoverageMapLoose(raw))) :
                    ObjectKeys(normalizeCoverageMapLoose(raw))[i] \in FirstKeys(raw)
              /\ med \in FirstKeys(raw) =>
                    out = getPolicyMedCoverage(Alone(LastWith(raw, med)), med)

----------------------------------------------------------------------------
(* Claims about absent maps (checked under SpecDiff) *)

Absent(m) == m.k \in {"null", "undefined"}
RowSet == {rows[i] : i \in 1..Len(rows)}

\* C19: diffCoverageMaps raises no error for a null or undefined base or
\* target and reads such a map as empty: against an absent base every key
\* of target is one Added row, against an absent target every key of base
\* is one Removed row, and two absent maps give no row.
C19_AbsentMapIsEmpty ==
    /\ dop # "threw"
    /\ dop = "diff" /\ Absent(base) =>
          /\ RowSet = {DiffRow("added", key, Undefined, OptGet(target, key)) : key \in KeysOf(target)}
          /\ Len(rows) = Cardinality(KeysOf(target))
    /\ dop = "diff" /\ Absent(target) =>
          /\ RowSet = {DiffRow("removed", key, OptGet(base, key), Undefined) : key \in KeysOf(base)}
          /\ Len(rows) = Cardinality(KeysOf(base))
    /\ dop = "diff" /\ Absent(base) /\ Absent(target) => rows = <<>>

\* a null base against a target of two keys gave two Added rows
C19_Witness ==
    /\ dop = "diff" /\ base = Null
    /\ Len(rows) = 2 /\ Kinds(rows) = {"added"}

----------------------------------------------------------------------------
(* Claims about purity (checked under SpecPure) *)

----------------------------------------------------------------------------
(* Claims about the lookup (checked under SpecLookup) *)

\* the same letter, in either case
SameLetter(c, d) ==
    c = d \/ \E n \in 1..Len(Lower) : {c, d} = {Lower[n], Upper[n]}
EqualIgnoringCase(a, b) ==
    Len(a) = Len(b) /\ \A i \in 1..Len(a) : SameLetter(a[i], b[i])

ExactAt == {i \in 1..Len(raw.props) : raw.props[i].key = med}
IgnoringCaseAt == {i \in 1..Len(raw.props) : EqualIgnoringCase(raw.props[i].key, med)}
FirstOf(S) == CHOOSE i \in S : \A j \in S : i <= j

\* C20: getPolicyMedCoverage returns the interpreted entry under the key
\* equal to med when there is one, otherwise the one under the first key in
\* map order that equals med ignoring case, otherwise no entry.
C20_LookupPrefersExact ==
    op = "getPolicyMedCoverage" /\ med # <<>> =>
        IF ExactAt # {} THEN out = interpretCoverage(raw.props[FirstOf(ExactAt)].val)
        ELSE IF IgnoringCaseAt # {}
             THEN out = interpretCoverage(raw.props[FirstOf(IgnoringCaseAt)].val)
        ELSE out = Undefined

\* "ab" looked up in {Ab: 50, ab: "covered"} gave Covered, not Percent(50)
C20_Witness ==
    /\ op = "getPolicyMedCoverage" /\ med = <<"a","b">>
    /\ raw = Obj(<<Prop(<<"A","b">>, Num(50)), Prop(<<"a","b">>, Str(sCovered))>>)
    /\ IsCoveredEntry(out)

----------------------------------------------------------------------------
(* Claims about the treatments page (checked under SpecPage, SpecPageFair) *)

\* C21: whatever the order of patient-list updates, policy-map updates and
\* fetch completions, no policy id is requested more than once.
\* The copy without fetchedPolicyIdsRef requests an id again.
C21_RequestedAtMostOnce == \A id \in PagePolicyIds : reqCount[id] <= 1

\* C24: on the copy with fetchedPolicyIdsRef, a policy id that a loaded
\* patient refers to and that the server can deliver is eventually a key of
\* policyById (or no patient refers to it any more), also when the patient
\* list is replaced while its batch is in flight.
\* The replaced effect's batch is cancelled and the id, already recorded in
\* fetchedPolicyIdsRef, is never requested again.
C24_EventuallyLoaded ==
    \A id \in PagePolicyIds :
        (dedupe /\ id \in neededIds /\ id \in servable)
            ~> (id \in loadedIds \/ id \notin neededIds)

\* C25: on the copies without a record of the requested ids, once every
\* needed id has been requested and answered (with a policy or with a
\* failure) no further request is issued.
\* Every answer replaces policyById, the effect runs again and requests the
\* failed ids again.
C25_NoRequestAfterAnswers ==
    [][ (~dedupe /\ neededIds # {} /\ neededIds \subseteq answeredIds)
            => reqCount' = reqCount ]_vars

----------------------------------------------------------------------------
(* Claims about the billing page (checked under SpecBill) *)

\* C26: while a recommendations request issued for the current user id is
\* neither completed nor aborted, loading is true, also after the user id
\* changed and the earlier request was aborted.
\* The aborted request's `finally` sets loading to false under the new one.
C26_LoadingWhileInFlight ==
    (\E r \in billReqs : r.user = billUser /\ ~r.aborted) => billLoading

----------------------------------------------------------------------------
(* Claims about the AuthProvider (checked under SpecAuth) *)

\* C29: after logout(), user and token stay null and both storage keys stay
\* absent until a login() started after that logout succeeds; a login
\* started before the logout and completing after it restores no session.
\* login() never looks whether a logout happened while it waited.
C29_LoggedOutStays ==
    loggedOut =>
        /\ authUser = "null" /\ authToken = "null"
        /\ storedUser = "null" /\ storedToken = "null"

----------------------------------------------------------------------------
(* Claims about the policies page (checked under SpecPolicies) *)

PairOf(p) == <<p.insuranceCompanyRef, p.name>>
FetchedPairs == {PairOf(fetched[i]) : i \in 1..Len(fetched)}
FetchedOf(pair) == {i \in 1..Len(fetched) : PairOf(fetched[i]) = pair}
\* the first policy of the pair that has the pair's highest version
FirstHighestOf(pair) ==
    LET i == CHOOSE i \in FetchedOf(pair) :
                 \A j \in FetchedOf(pair) :
                     \/ fetched[j].version.n < fetched[i].version.n
                     \/ (fetched[j].version.n = fetched[i].version.n /\ i <= j)
    IN fetched[i]
KeptOf(pair) == {j \in 1..Len(policies) : PairOf(policies[j]) = pair}

\* C22: for each distinct (insuranceCompanyRef, name) pair of the fetched
\* list the page keeps exactly one policy, the first one of the pair's
\* highest version.
\* The Map key joins the two with "::", which two distinct pairs can share.
C22_LatestPerPair ==
    pop \in {"loaded", "compared"} =>
        \A pair \in FetchedPairs :
            \E j \in 1..Len(policies) :
                KeptOf(pair) = {j} /\ policies[j] = FirstHighestOf(pair)

\* the fetched policies of current's name and of a lower version
LowerVersionsOf(current) ==
    IF allForCompany.k # "array" THEN {}
    ELSE {i \in 1..Len(allForCompany.items) :
            /\ allForCompany.items[i].name = current.name
            /\ allForCompany.items[i].version.n < current.version.n}

\* C23: handleCompareWithPrevious(current) takes as previous the policy of
\* the same company and the same name whose version is the highest below
\* current.version and sets comparePair to (current, previous); without
\* such a policy, or without a company reference, it sets compareError and
\* leaves comparePair null.
C23_ComparePrevious ==
    pop = "compared" =>
        IF LowerVersionsOf(compared) # {}
        THEN /\ compareError = "null"
             /\ comparePair # Null
             /\ comparePair.current = compared
             /\ companyIdOf(comparePair.previous.insuranceCompanyRef)
                    = companyIdOf(compared.insuranceCompanyRef)
             /\ \E i \in LowerVersionsOf(compared) :
                    /\ comparePair.previous = allForCompany.items[i]
                    /\ \A j \in LowerVersionsOf(compared) :
                           allForCompany.items[j].version.n
                               <= allForCompany.items[i].version.n
        ELSE comparePair = Null /\ compareError # "null"

\* a comparison that had two lower versions to choose from, and one that
\* found none
C23_Witness ==
    /\ pop = "compared"
    /\ comparePair # Null
    /\ \E i, j \in LowerVersionsOf(compared) :
           allForCompany.items[i].version.n < allForCompany.items[j].version.n

----------------------------------------------------------------------------
(* Claims about the guarded loading effects (checked under SpecLoader) *)

\* C27: once the cleanup of a `cancelled`-guarded loading effect has run,
\* the continuation of that run changes none of data, error and loading,
\* whether the response came before or after the cleanup.
C27_CancelledRunChangesNothing ==
    [][ (ldStale' # ldStale) => UNCHANGED <<ldData, ldError, ldLoading>> ]_vars

\* a run cleaned up before its response and one cleaned up after it have
\* both finished, while a later run is loading
C27_Witness ==
    /\ Cardinality(ldStale) >= 2
    /\ ldLoading
    /\ \E r \in ldRuns : ~r.cancelled

----------------------------------------------------------------------------
(* Claims about the coverage summary (checked under SpecSummary) *)

\* the policies a copy counts: all ids (part_008), the loaded ones (.tsx)
Considered ==
    IF bop = "fmtHospitalCoverageSummary" THEN 1..Len(pids)
    ELSE {i \in 1..Len(pids) : Truthy(Get(policyById, pids[i]))}

\* rankCoverage of the entry the copy reads for policy i and medication m
RankAt(i, m) ==
    IF bop = "fmtHospitalCoverageSummary"
    THEN rankCoverage(summaryEntryOf(Get(policyById, pids[i]), m))
    ELSE treatmentsRankCoverage(treatmentsEntryOf(Get(policyById, pids[i]), m))

Ranked(m, r) == Cardinality({i \in Considered : RankAt(i, m) = r})

\* C28: for every medication each considered policy is counted in exactly
\* one of full, partial, none, in the bucket of its rankCoverage (3: full,
\* 2: partial, 0: none), and both copies of fmtHospitalCoverageSummary give
\* the same counts for the same policies.
\* The .tsx copy counts a percentage of 0 as partial, and the two copies
\* read different entries and consider different policies.
C28_SummaryAgreesWithRank ==
    bop \in {"fmtHospitalCoverageSummary", "treatmentsFmtHospitalCoverageSummary"} =>
        /\ \A i \in 1..Len(meds) :
              /\ Get(summary, meds[i]).full = Ranked(meds[i], 3)
              /\ Get(summary, meds[i]).partial = Ranked(meds[i], 2)
              /\ Get(summary, meds[i]).none = Ranked(meds[i], 0)
        /\ fmtHospitalCoverageSummary(meds, pids, policyById)
              = treatmentsFmtHospitalCoverageSummary(meds, pids, policyById)

====
